---------------------------- MODULE Spec2Model ----------------------------
(***************************************************************************)
(* State-machine model of rfvp-rdecompiler: the IR constructors (ir.rs),   *)
(* the symbolic StackAnalyzer (ir.rs) and the two-pass Disassembler         *)
(* (disasm.rs).                                                             *)
(*                                                                         *)
(* Rust values are modelled as tagged records.  A Result is a record with  *)
(* st \in {"ok", "err", "panic"}: "err" is an anyhow error (bail!/?),       *)
(* "panic" is a Rust panic (index out of bounds, unwrap on None, and       *)
(* arithmetic overflow when the build has overflow checks).                *)
(***************************************************************************)
EXTENDS Integers, Sequences, FiniteSets, TLC

VARIABLES
    scenario,                  \* Disassembler.scenario: the loaded container
    cursor,                    \* Disassembler.cursor
    functions,                 \* Disassembler.functions: address -> Function
    stack_analyzer,            \* Disassembler.stack_analyzer: Option<StackAnalyzer>
    current_function_address,  \* Disassembler.current_function_address: Option<u32>
    pc,                        \* position of the driver (disassemble, or an API harness)
    overflow_checks,           \* build profile: TRUE = debug (overflow panics), FALSE = release (wraps)
    last,                      \* the last API call made by a harness and its result
    shadow,                    \* ghost: references pushed and not yet popped, oldest first
    hist                       \* ghost: opcode offsets visited by each pass

vars == <<scenario, cursor, functions, stack_analyzer, current_function_address,
          pc, overflow_checks, last, shadow, hist>>

(***************************************************************************)
(* Fixed-width integers                                                     *)
(***************************************************************************)
I8 == -128 .. 127

\* `x as i8` for a non-negative x
AsI8(x) == LET m == x % 256 IN IF m >= 128 THEN m - 256 ELSE m

\* i8::abs in a build without overflow checks: |i8::MIN| wraps to i8::MIN
I8WrappingAbs(x) == IF x = -128 THEN -128 ELSE IF x < 0 THEN -x ELSE x

\* a u32 is kept as two 16-bit halves (2^32 does not fit the checker's integers)
U32(hi, lo) == [hi |-> hi, lo |-> lo]

\* `x as u32` for an i8 x: sign extension
I8AsU32(x) == IF x < 0 THEN U32(65535, 65536 + x) ELSE U32(0, x)

\* u32 minus a small n, wrapping
U32Sub(a, n) ==
    IF a.lo >= n THEN U32(a.hi, a.lo - n)
    ELSE U32((a.hi + 65535) % 65536, a.lo + 65536 - n)

Pad5(r) ==
    IF r < 10 THEN "0000" \o ToString(r)
    ELSE IF r < 100 THEN "000" \o ToString(r)
    ELSE IF r < 1000 THEN "00" \o ToString(r)
    ELSE IF r < 10000 THEN "0" \o ToString(r)
    ELSE ToString(r)

\* format!("{}", a) for a u32 a: its decimal digits
U32ToString(a) ==
    IF a.hi = 0 THEN ToString(a.lo)
    ELSE LET h  == a.hi * 256
             qa == h \div 100000
             ra == h % 100000
             t  == ra * 256 + a.lo
             q  == qa * 256 + (t \div 100000)
             r  == t % 100000
         IN IF q = 0 THEN ToString(r) ELSE ToString(q) \o Pad5(r)

(***************************************************************************)
(* Results                                                                  *)
(***************************************************************************)
Unit == [tag |-> "Unit"]
Ok(v) == [st |-> "ok", val |-> v]
Err(msg) == [st |-> "err", val |-> [tag |-> "Error", msg |-> msg]]
Panic(msg) == [st |-> "panic", val |-> [tag |-> "Panic", msg |-> msg]]

(***************************************************************************)
(* Variant payloads and NamedVariant (ir.rs)                                *)
(***************************************************************************)
VNil == [tag |-> "Nil"]
VTrue == [tag |-> "True"]
VInt(v) == [tag |-> "Int", v |-> v]
VFloat(bits) == [tag |-> "Float", bits |-> bits]
VString(s) == [tag |-> "String", s |-> s]

StackIndexed(name, variant) == [tag |-> "StackIndexed", name |-> name, variant |-> variant]
ReturnValue == [tag |-> "ReturnValue"]
Global(slot) == [tag |-> "Global", slot |-> slot]
Expr(stmt) == [tag |-> "Expr", expr |-> stmt]

\* mutant of from_arg: off by one in the argument numbering
from_arg_off_by_one(index, variant) ==
    IF index >= -1 THEN Err("invalid argument index")
    ELSE IF index = -128 /\ overflow_checks THEN Panic("attempt to negate with overflow")
    ELSE Ok(StackIndexed("arg" \o U32ToString(U32Sub(I8AsU32(I8WrappingAbs(index)), 1)), variant))

from_arg(index, variant) ==
    IF index >= -1 THEN Err("invalid argument index")
    ELSE IF index = -128 /\ overflow_checks THEN Panic("attempt to negate with overflow")
    ELSE Ok(StackIndexed("arg" \o U32ToString(U32Sub(I8AsU32(I8WrappingAbs(index)), 2)), variant))

\* mutant of from_local: the guard rejects index 0 as well
from_local_rejects_zero(index, variant) ==
    IF index <= 0 THEN Err("invalid local index")
    ELSE Ok(StackIndexed("local" \o ToString(index), variant))

from_local(index, variant) ==
    IF index < 0 THEN Err("invalid local index")
    ELSE Ok(StackIndexed("local" \o ToString(index), variant))

from_global(slot) == Global(slot)

from_return_value == ReturnValue

from_expr(expr) == Expr(expr)

\* mutant of is_same_register: the payloads are compared too
is_same_register_compares_payload(a, b) ==
    IF a.tag = "StackIndexed" /\ b.tag = "StackIndexed"
    THEN [tag |-> "Some", v |-> (a.name = b.name /\ a.variant = b.variant)]
    ELSE [tag |-> "None"]

\* Option<bool>: "none" or a boolean wrapped in Some
is_same_register(a, b) ==
    IF a.tag = "StackIndexed" /\ b.tag = "StackIndexed"
    THEN [tag |-> "Some", v |-> (a.name = b.name)]
    ELSE [tag |-> "None"]

(***************************************************************************)
(* Statement (ir.rs)                                                        *)
(***************************************************************************)
from_call(address, target, args) ==
    [tag |-> "Call", address |-> address, target |-> target, args |-> args]

from_syscall(address, syscall_name, args) ==
    [tag |-> "Syscall", address |-> address, syscall_name |-> syscall_name, args |-> args]

from_return(address, has_value) ==
    [tag |-> "Return", address |-> address, has_value |-> has_value]

from_jmp(address, target) ==
    [tag |-> "Jmp", address |-> address, target |-> target]

from_jz(address, target, condition) ==
    [tag |-> "Jz", address |-> address, target |-> target, condition |-> condition]

from_global_table_access(address, tlb, slot) ==
    [tag |-> "GlobalTableAccess", address |-> address, tlb |-> tlb, slot |-> slot]

from_local_table_access(address, tlb, slot) ==
    [tag |-> "LocalTableAccess", address |-> address, tlb |-> tlb, slot |-> slot]

from_binary_op(address, op, lhs, rhs) ==
    [tag |-> "BinaryOp", address |-> address, op |-> op, lhs |-> lhs, rhs |-> rhs]

from_unary_op(address, op, operand) ==
    [tag |-> "UnaryOp", address |-> address, op |-> op, operand |-> operand]

from_assign(address, target, value) ==
    [tag |-> "Assign", address |-> address, target |-> target, value |-> value]

\* Statement::address: the address field of whichever variant
Statement_address(statement) == statement.address

(***************************************************************************)
(* StackAnalyzer (ir.rs).  An analyzer is a record                          *)
(* [local_count, args_count, cur_top, local_variables]; local_variables    *)
(* is the backing Vec, 1-based here (Vec index i is element i + 1).         *)
(* Every method returns [st, sa, val]: the result, the analyzer after the   *)
(* call, and the returned value.                                            *)
(***************************************************************************)
SaOk(sa, v) == [st |-> "ok", sa |-> sa, val |-> v]
SaFail(r, sa) == [st |-> r.st, sa |-> sa, val |-> r.val]

\* vec[i] for a usize i: panics when i is out of bounds
VecIndex(vec, i) ==
    IF i < Len(vec) THEN Ok(vec[i + 1]) ELSE Panic("index out of bounds")

StackAnalyzer_new(local, args) ==
    [local_count |-> local,
     args_count |-> args,
     cur_top |-> local,
     local_variables |-> [i \in 1 .. local |-> StackIndexed("local" \o ToString(i - 1), VNil)]]

\* mutant of sa_push: the reference is named by the index after the push
sa_push_names_next(sa, variant) ==
    LET var == from_local(AsI8(sa.cur_top + 1), variant)
    IN IF var.st # "ok" THEN SaFail(var, sa)
       ELSE SaOk([sa EXCEPT !.local_variables = Append(@, var.val),
                            !.cur_top = @ + 1], Unit)

sa_push(sa, variant) ==
    LET var == from_local(AsI8(sa.cur_top), variant)
    IN IF var.st # "ok" THEN SaFail(var, sa)
       ELSE SaOk([sa EXCEPT !.local_variables = Append(@, var.val),
                            !.cur_top = @ + 1], Unit)

\* mutant of sa_push_named: the counter moves, the entry is not stored
sa_push_named_counts_only(sa, named) ==
    SaOk([sa EXCEPT !.cur_top = @ + 1], Unit)

sa_push_named(sa, named) ==
    SaOk([sa EXCEPT !.local_variables = Append(@, named), !.cur_top = @ + 1], Unit)

sa_push_nil(sa) == sa_push(sa, VNil)

sa_push_true(sa) == sa_push(sa, VTrue)

sa_push_int(sa, value) == sa_push(sa, VInt(value))

sa_push_float(sa, value) == sa_push(sa, VFloat(value))

sa_push_string(sa, value) == sa_push(sa, VString(value))

sa_push_global(sa, slot) == sa_push_named(sa, from_global(slot))

\* mutant of sa_push_stack: a non-negative index is not compared with local_count
sa_push_stack_any_slot(sa, idx) ==
    IF idx >= 0
    THEN LET tmp == VecIndex(sa.local_variables, idx)
         IN IF tmp.st # "ok" THEN SaFail(tmp, sa) ELSE sa_push_named(sa, tmp.val)
    ELSE IF idx < -1
    THEN LET tmp == from_arg(idx, VNil)
         IN IF tmp.st # "ok" THEN SaFail(tmp, sa) ELSE sa_push_named(sa, tmp.val)
    ELSE SaFail(Err("push_stack(): invalid stack index"), sa)

sa_push_stack(sa, idx) ==
    IF idx >= 0 /\ idx < AsI8(sa.local_count)
    THEN LET tmp == VecIndex(sa.local_variables, idx)
         IN IF tmp.st # "ok" THEN SaFail(tmp, sa) ELSE sa_push_named(sa, tmp.val)
    ELSE IF idx < -1
    THEN LET tmp == from_arg(idx, VNil)
         IN IF tmp.st # "ok" THEN SaFail(tmp, sa) ELSE sa_push_named(sa, tmp.val)
    ELSE SaFail(Err("push_stack(): invalid stack index"), sa)

sa_push_top(sa) ==
    IF sa.cur_top > 0
    THEN LET tmp == VecIndex(sa.local_variables, sa.cur_top - 1)
         IN IF tmp.st # "ok" THEN SaFail(tmp, sa) ELSE sa_push_named(sa, tmp.val)
    ELSE SaFail(Err("push_top(): stack underflow"), sa)

sa_push_return_value(sa) == sa_push_named(sa, from_return_value)

sa_push_expr(sa, expr) == sa_push_named(sa, from_expr(expr))

\* mutant of sa_pop: the underflow guard compares with 0 instead of local_count
sa_pop_guard_zero(sa) ==
    IF sa.cur_top > 0
    THEN LET top == sa.cur_top - 1
             tmp == VecIndex(sa.local_variables, top)
         IN IF tmp.st # "ok" THEN SaFail(tmp, sa)
            ELSE SaOk([sa EXCEPT !.cur_top = top,
                                 !.local_variables[top + 1] =
                                     StackIndexed("local" \o ToString(top), VNil)],
                      tmp.val)
    ELSE SaFail(Err("pop(): stack underflow"), sa)

\* mutant of sa_pop: the popped slot keeps its entry
sa_pop_keeps_entry(sa) ==
    IF sa.cur_top > sa.local_count
    THEN LET top == sa.cur_top - 1
             tmp == VecIndex(sa.local_variables, top)
         IN IF tmp.st # "ok" THEN SaFail(tmp, sa)
            ELSE SaOk([sa EXCEPT !.cur_top = top], tmp.val)
    ELSE SaFail(Err("pop(): stack underflow"), sa)

sa_pop(sa) ==
    IF sa.cur_top > sa.local_count
    THEN LET top == sa.cur_top - 1
             tmp == VecIndex(sa.local_variables, top)
         IN IF tmp.st # "ok" THEN SaFail(tmp, sa)
            ELSE SaOk([sa EXCEPT !.cur_top = top,
                                 !.local_variables[top + 1] =
                                     StackIndexed("local" \o ToString(top), VNil)],
                      tmp.val)
    ELSE SaFail(Err("pop(): stack underflow"), sa)

sa_get(sa, idx) ==
    IF idx >= 0
    THEN SaFail(VecIndex(sa.local_variables, idx), sa)
    ELSE IF idx < -1
    THEN SaFail(from_arg(idx, VNil), sa)
    ELSE SaFail(Err("get(): invalid stack index"), sa)

current_stack_top(sa) == sa.cur_top

(***************************************************************************)
(* Option values and the idle Disassembler of the API harnesses             *)
(***************************************************************************)
None == [tag |-> "None"]
Some(v) == [tag |-> "Some", v |-> v]

EmptyMap == [a \in {} |-> Unit]

NoScenario == [data |-> <<>>, sys_desc_offset |-> 0, syscalls |-> EmptyMap]

NoHist == [p1 |-> <<>>, p1_end |-> 0, p2 |-> <<>>, rewinds |-> 0]

Call(op, arg, res, expected) ==
    [op |-> op, arg |-> arg, res |-> [st |-> res.st, val |-> res.val], expected |-> expected]

NoCall == Call("none", Unit, Ok(Unit), Unit)

(***************************************************************************)
(* The container reader (rfvp_core::format::scenario::Scenario).  A         *)
(* scenario is [data, sys_desc_offset, syscalls]: the bytes of the file     *)
(* (offset o is data[o + 1]), the offset at which the routine stream ends,  *)
(* and the syscall table id -> [name, args].  Reads are little-endian and   *)
(* fail beyond the end of the data.  Offsets and 32-bit values stay below   *)
(* 2^31 in the inputs used here.                                            *)
(***************************************************************************)
InData(sc, offset, n) == offset + n <= Len(sc.data)

Byte(sc, offset) == sc.data[offset + 1]

read_u8(sc, offset) ==
    IF InData(sc, offset, 1) THEN Ok(Byte(sc, offset)) ELSE Err("read out of bounds")

read_i8(sc, offset) ==
    IF InData(sc, offset, 1) THEN Ok(AsI8(Byte(sc, offset))) ELSE Err("read out of bounds")

read_u16(sc, offset) ==
    IF InData(sc, offset, 2)
    THEN Ok(Byte(sc, offset) + 256 * Byte(sc, offset + 1))
    ELSE Err("read out of bounds")

read_i16(sc, offset) ==
    IF InData(sc, offset, 2)
    THEN Ok(Byte(sc, offset) + 256 * AsI8(Byte(sc, offset + 1)))
    ELSE Err("read out of bounds")

read_u32(sc, offset) ==
    IF InData(sc, offset, 4)
    THEN Ok(Byte(sc, offset) + 256 * Byte(sc, offset + 1)
            + 65536 * Byte(sc, offset + 2) + 16777216 * Byte(sc, offset + 3))
    ELSE Err("read out of bounds")

read_i32(sc, offset) ==
    IF InData(sc, offset, 4)
    THEN Ok(Byte(sc, offset) + 256 * Byte(sc, offset + 1)
            + 65536 * Byte(sc, offset + 2) + 16777216 * AsI8(Byte(sc, offset + 3)))
    ELSE Err("read out of bounds")

\* an f32 is kept as its four bytes
read_f32(sc, offset) ==
    IF InData(sc, offset, 4)
    THEN Ok(SubSeq(sc.data, offset + 1, offset + 4))
    ELSE Err("read out of bounds")

\* a decoded string is kept as its bytes
read_cstring(sc, offset, len) ==
    IF InData(sc, offset, len)
    THEN Ok(SubSeq(sc.data, offset + 1, offset + len))
    ELSE Err("read out of bounds")

get_syscall(sc, id) ==
    IF id \in DOMAIN sc.syscalls THEN Some(sc.syscalls[id]) ELSE None

get_sys_desc_offset(sc) == sc.sys_desc_offset

(***************************************************************************)
(* Opcode numbering: the byte each handler's doc comment gives              *)
(* (0x00 nop .. 0x27 setge); any other byte is not an Opcode.               *)
(***************************************************************************)
Opcodes ==
    << "Nop", "InitStack", "Call", "Syscall", "Ret", "RetV", "Jmp", "Jz",
       "PushNil", "PushTrue", "PushI32", "PushI16", "PushI8", "PushF32",
       "PushString", "PushGlobal", "PushStack", "PushGlobalTable",
       "PushLocalTable", "PushTop", "PushReturn", "PopGlobal", "PopStack",
       "PopGlobalTable", "PopLocalTable", "Neg", "Add", "Sub", "Mul", "Div",
       "Mod", "BitTest", "And", "Or", "SetE", "SetNE", "SetG", "SetLE",
       "SetL", "SetGE" >>

\* opcode.try_into(): the Opcode, or "Unknown" for Err
TryIntoOpcode(opcode) ==
    IF opcode < Len(Opcodes) THEN Opcodes[opcode + 1] ELSE "Unknown"

(***************************************************************************)
(* Disassembler (disasm.rs).  A disassembler state is the record            *)
(* [cursor, functions, stack_analyzer, current_function_address]; every     *)
(* handler returns [st, d]: the result and the state it leaves, including   *)
(* what it changed before failing.                                          *)
(***************************************************************************)
DOk(d) == [st |-> "ok", d |-> d, val |-> Unit]
DFail(r, d) == [st |-> r.st, d |-> d, val |-> r.val]

Function(address, args_count, locals_count) ==
    [address |-> address, args_count |-> args_count,
     locals_count |-> locals_count, statements |-> <<>>]

\* `x as u8` for an i8 x
I8AsU8(x) == IF x < 0 THEN x + 256 ELSE x

Disassembler_new(sc) ==
    [cursor |-> 4, functions |-> EmptyMap, stack_analyzer |-> None,
     current_function_address |-> None]

get_pc(d) == d.cursor

\* mutant of rewind: the cursor is left where pass 1 ended
rewind_keeps_cursor(d) ==
    [d EXCEPT !.current_function_address = None, !.stack_analyzer = None]

rewind(d) ==
    [d EXCEPT !.cursor = 4, !.current_function_address = None, !.stack_analyzer = None]

\* mutant of push_statement_to_current_function: the statement goes to the
\* first routine of the table
push_statement_to_first(d, statement) ==
    IF d.current_function_address.tag = "Some"
    THEN LET addr == CHOOSE a \in DOMAIN d.functions : \A b \in DOMAIN d.functions : a <= b
         IN DOk([d EXCEPT !.functions[addr].statements = Append(@, statement)])
    ELSE DFail(Err("current function address is None"), d)

\* mutant of push_statement_to_current_function: the statement is put in front
push_statement_in_front(d, statement) ==
    IF d.current_function_address.tag = "Some"
    THEN LET addr == d.current_function_address.v
         IN IF addr \in DOMAIN d.functions
            THEN DOk([d EXCEPT !.functions[addr].statements = <<statement>> \o @])
            ELSE DFail(Err("function not found"), d)
    ELSE DFail(Err("current function address is None"), d)

\* mutant of push_statement_to_current_function: outside a routine the
\* statement is dropped and the call succeeds
push_statement_or_drop(d, statement) ==
    IF d.current_function_address.tag = "Some"
    THEN LET addr == d.current_function_address.v
         IN IF addr \in DOMAIN d.functions
            THEN DOk([d EXCEPT !.functions[addr].statements = Append(@, statement)])
            ELSE DFail(Err("function not found"), d)
    ELSE DOk(d)

push_statement_to_current_function(d, statement) ==
    IF d.current_function_address.tag = "Some"
    THEN LET addr == d.current_function_address.v
         IN IF addr \in DOMAIN d.functions
            THEN DOk([d EXCEPT !.functions[addr].statements = Append(@, statement)])
            ELSE DFail(Err("function not found"), d)
    ELSE DFail(Err("current function address is None"), d)

Advance(d, n) == [d EXCEPT !.cursor = @ + n]

\* mutant of nop: the cursor stays on the opcode
nop_stays(d) == DOk(d)

nop(d) == DOk(Advance(d, 1))

one_byte_bypass(d) == DOk(Advance(d, 1))

two_bytes_bypass(d) == DOk(Advance(d, 2))

three_bytes_bypass(d) == DOk(Advance(d, 3))

five_bytes_bypass(d) == DOk(Advance(d, 5))

\* mutant of init_stack: an analyzer that exists is kept for the new routine
init_stack_keeps_analyzer(d) ==
    LET addr == get_pc(d)
        d1 == Advance(d, 3)
    IN IF addr \in DOMAIN d1.functions
       THEN LET func == d1.functions[addr]
            IN DOk([d1 EXCEPT
                       !.stack_analyzer =
                           IF d1.stack_analyzer.tag = "Some" THEN @
                           ELSE Some(StackAnalyzer_new(func.locals_count, func.args_count)),
                       !.current_function_address = Some(addr)])
       ELSE DFail(Err("function not found"), d1)

init_stack(d) ==
    LET addr == get_pc(d)
        d1 == Advance(d, 3)
    IN IF addr \in DOMAIN d1.functions
       THEN LET func == d1.functions[addr]
            IN DOk([d1 EXCEPT
                       !.stack_analyzer =
                           Some(StackAnalyzer_new(func.locals_count, func.args_count)),
                       !.current_function_address = Some(addr)])
       ELSE DFail(Err("function not found"), d1)

\* mutant of init_stack_bypass: the two counts are stored in each other's field
init_stack_bypass_swaps_counts(d, sc) ==
    LET addr == get_pc(d)
        d1 == Advance(d, 1)
        args_count == read_i8(sc, d1.cursor)
        d2 == Advance(d1, 1)
        locals_count == read_i8(sc, d2.cursor)
        d3 == Advance(d2, 1)
    IN IF args_count.st # "ok" THEN DFail(args_count, d1)
       ELSE IF locals_count.st # "ok" THEN DFail(locals_count, d2)
       ELSE DOk([d3 EXCEPT !.functions =
                    [a \in DOMAIN @ \cup {addr} |->
                        IF a = addr
                        THEN Function(addr, I8AsU8(locals_count.val), I8AsU8(args_count.val))
                        ELSE @[a]]])

init_stack_bypass(d, sc) ==
    LET addr == get_pc(d)
        d1 == Advance(d, 1)
        args_count == read_i8(sc, d1.cursor)
        d2 == Advance(d1, 1)
        locals_count == read_i8(sc, d2.cursor)
        d3 == Advance(d2, 1)
    IN IF args_count.st # "ok" THEN DFail(args_count, d1)
       ELSE IF locals_count.st # "ok" THEN DFail(locals_count, d2)
       ELSE DOk([d3 EXCEPT !.functions =
                    [a \in DOMAIN @ \cup {addr} |->
                        IF a = addr
                        THEN Function(addr, I8AsU8(args_count.val), I8AsU8(locals_count.val))
                        ELSE @[a]]])

\* mutant of push_string_bypass: skips the length byte but not the string body
push_string_bypass_skips_no_body(d, sc) ==
    LET d1 == Advance(d, 1)
        len == read_u8(sc, d1.cursor)
    IN IF len.st # "ok" THEN DFail(len, d1)
       ELSE DOk(Advance(d1, 1))

push_string_bypass(d, sc) ==
    LET d1 == Advance(d, 1)
        len == read_u8(sc, d1.cursor)
    IN IF len.st # "ok" THEN DFail(len, d1)
       ELSE DOk(Advance(d1, 1 + len.val))

HasAnalyzer(d) == d.stack_analyzer.tag = "Some"

NoAnalyzer(d) == DFail(Err("stack analyzer not found"), d)

\* the tail of a handler whose last step is an analyzer call with result r
Analyzed(d, r) ==
    LET d1 == [d EXCEPT !.stack_analyzer = Some(r.sa)]
    IN IF r.st = "ok" THEN DOk(d1) ELSE DFail(r, d1)

\* `for _ in 0..n { if let Ok(arg) = stack_analyzer.pop() {..} else { bail! } }`
RECURSIVE pop_args(_, _, _)
pop_args(sa, n, args) ==
    IF n = 0 THEN SaOk(sa, args)
    ELSE LET r == sa_pop(sa)
         IN IF r.st = "ok" THEN pop_args(r.sa, n - 1, Append(args, r.val))
            ELSE IF r.st = "panic" THEN SaFail(r, r.sa)
            ELSE SaFail(Err("stack analyzer underflow"), r.sa)

\* mutant of call: pops one operand less than the callee declares
call_pops_one_less(d, sc) ==
    LET addr == get_pc(d)
        d1 == Advance(d, 1)
        target == read_u32(sc, d1.cursor)
        d2 == Advance(d1, 4)
    IN IF target.st # "ok" THEN DFail(target, d1)
       ELSE IF target.val \notin DOMAIN d2.functions
       THEN DFail(Err("function not found"), d2)
       ELSE IF ~HasAnalyzer(d2) THEN NoAnalyzer(d2)
       ELSE LET n == d2.functions[target.val].args_count
                popped == pop_args(d2.stack_analyzer.v, IF n > 0 THEN n - 1 ELSE 0, <<>>)
                d3 == [d2 EXCEPT !.stack_analyzer = Some(popped.sa)]
            IN IF popped.st # "ok" THEN DFail(popped, d3)
               ELSE push_statement_to_current_function(
                        d3, from_call(addr, target.val, popped.val))

\* mutant of call: only a routine that starts before the call is resolved
call_backward_only(d, sc) ==
    LET addr == get_pc(d)
        d1 == Advance(d, 1)
        target == read_u32(sc, d1.cursor)
        d2 == Advance(d1, 4)
    IN IF target.st # "ok" THEN DFail(target, d1)
       ELSE IF target.val \notin DOMAIN d2.functions \/ target.val > addr
       THEN DFail(Err("function not found"), d2)
       ELSE IF ~HasAnalyzer(d2) THEN NoAnalyzer(d2)
       ELSE LET callee_args_count == d2.functions[target.val].args_count
                popped == pop_args(d2.stack_analyzer.v, callee_args_count, <<>>)
                d3 == [d2 EXCEPT !.stack_analyzer = Some(popped.sa)]
            IN IF popped.st # "ok" THEN DFail(popped, d3)
               ELSE push_statement_to_current_function(
                        d3, from_call(addr, target.val, popped.val))

call(d, sc) ==
    LET addr == get_pc(d)
        d1 == Advance(d, 1)
        target == read_u32(sc, d1.cursor)
        d2 == Advance(d1, 4)
    IN IF target.st # "ok" THEN DFail(target, d1)
       ELSE IF target.val \notin DOMAIN d2.functions
       THEN DFail(Err("function not found"), d2)
       ELSE IF ~HasAnalyzer(d2) THEN NoAnalyzer(d2)
       ELSE LET callee_args_count == d2.functions[target.val].args_count
                popped == pop_args(d2.stack_analyzer.v, callee_args_count, <<>>)
                d3 == [d2 EXCEPT !.stack_analyzer = Some(popped.sa)]
            IN IF popped.st # "ok" THEN DFail(popped, d3)
               ELSE push_statement_to_current_function(
                        d3, from_call(addr, target.val, popped.val))

\* mutant of syscall: an id without a descriptor is skipped
syscall_skips_unknown_id(d, sc) ==
    LET addr == get_pc(d)
        d1 == Advance(d, 1)
        id == read_u16(sc, d1.cursor)
        d2 == Advance(d1, 2)
    IN IF id.st # "ok" THEN DFail(id, d1)
       ELSE LET found == get_syscall(sc, id.val)
            IN IF found.tag # "Some" THEN DOk(d2)
               ELSE IF ~HasAnalyzer(d2) THEN NoAnalyzer(d2)
               ELSE LET popped == pop_args(d2.stack_analyzer.v, found.v.args, <<>>)
                        d3 == [d2 EXCEPT !.stack_analyzer = Some(popped.sa)]
                    IN IF popped.st # "ok" THEN DFail(popped, d3)
                       ELSE push_statement_to_current_function(
                                d3, from_syscall(addr, found.v.name, popped.val))

syscall(d, sc) ==
    LET addr == get_pc(d)
        d1 == Advance(d, 1)
        id == read_u16(sc, d1.cursor)
        d2 == Advance(d1, 2)
    IN IF id.st # "ok" THEN DFail(id, d1)
       ELSE LET found == get_syscall(sc, id.val)
            IN IF found.tag # "Some" THEN DFail(Err("syscall not found"), d2)
               ELSE IF ~HasAnalyzer(d2) THEN NoAnalyzer(d2)
               ELSE LET popped == pop_args(d2.stack_analyzer.v, found.v.args, <<>>)
                        d3 == [d2 EXCEPT !.stack_analyzer = Some(popped.sa)]
                    IN IF popped.st # "ok" THEN DFail(popped, d3)
                       ELSE push_statement_to_current_function(
                                d3, from_syscall(addr, found.v.name, popped.val))

\* mutant of ret: the address is taken after the cursor moved
ret_address_after(d) ==
    push_statement_to_current_function(Advance(d, 1),
                                       from_return(get_pc(Advance(d, 1)), FALSE))

ret(d) ==
    push_statement_to_current_function(Advance(d, 1), from_return(get_pc(d), FALSE))

retv(d) ==
    push_statement_to_current_function(Advance(d, 1), from_return(get_pc(d), TRUE))

jmp(d, sc) ==
    LET addr == get_pc(d)
        d1 == Advance(d, 1)
        target == read_u32(sc, d1.cursor)
        d2 == Advance(d1, 4)
    IN IF target.st # "ok" THEN DFail(target, d1)
       ELSE push_statement_to_current_function(d2, from_jmp(addr, target.val))

jz(d, sc) ==
    LET addr == get_pc(d)
        d1 == Advance(d, 1)
        target == read_u32(sc, d1.cursor)
        d2 == Advance(d1, 4)
    IN IF target.st # "ok" THEN DFail(target, d1)
       ELSE IF ~HasAnalyzer(d2) THEN NoAnalyzer(d2)
       ELSE LET condition_var == sa_pop(d2.stack_analyzer.v)
                d3 == [d2 EXCEPT !.stack_analyzer = Some(condition_var.sa)]
            IN IF condition_var.st # "ok" THEN DFail(condition_var, d3)
               ELSE push_statement_to_current_function(
                        d3, from_jz(addr, target.val, condition_var.val))

push_nil(d) ==
    LET d1 == Advance(d, 1)
    IN IF HasAnalyzer(d1) THEN Analyzed(d1, sa_push_nil(d1.stack_analyzer.v))
       ELSE NoAnalyzer(d1)

push_true(d) ==
    LET d1 == Advance(d, 1)
    IN IF HasAnalyzer(d1) THEN Analyzed(d1, sa_push_true(d1.stack_analyzer.v))
       ELSE NoAnalyzer(d1)

push_i32(d, sc) ==
    LET d1 == Advance(d, 1)
        value == read_i32(sc, d1.cursor)
        d2 == Advance(d1, 4)
    IN IF value.st # "ok" THEN DFail(value, d1)
       ELSE IF HasAnalyzer(d2) THEN Analyzed(d2, sa_push_int(d2.stack_analyzer.v, value.val))
       ELSE NoAnalyzer(d2)

push_i16(d, sc) ==
    LET d1 == Advance(d, 1)
        value == read_i16(sc, d1.cursor)
        d2 == Advance(d1, 2)
    IN IF value.st # "ok" THEN DFail(value, d1)
       ELSE IF HasAnalyzer(d2) THEN Analyzed(d2, sa_push_int(d2.stack_analyzer.v, value.val))
       ELSE NoAnalyzer(d2)

push_i8(d, sc) ==
    LET d1 == Advance(d, 1)
        value == read_i8(sc, d1.cursor)
        d2 == Advance(d1, 1)
    IN IF value.st # "ok" THEN DFail(value, d1)
       ELSE IF HasAnalyzer(d2) THEN Analyzed(d2, sa_push_int(d2.stack_analyzer.v, value.val))
       ELSE NoAnalyzer(d2)

push_f32(d, sc) ==
    LET d1 == Advance(d, 1)
        value == read_f32(sc, d1.cursor)
        d2 == Advance(d1, 4)
    IN IF value.st # "ok" THEN DFail(value, d1)
       ELSE IF HasAnalyzer(d2) THEN Analyzed(d2, sa_push_float(d2.stack_analyzer.v, value.val))
       ELSE NoAnalyzer(d2)

push_string(d, sc) ==
    LET d1 == Advance(d, 1)
        len == read_u8(sc, d1.cursor)
        d2 == Advance(d1, 1)
    IN IF len.st # "ok" THEN DFail(len, d1)
       ELSE LET str == read_cstring(sc, d2.cursor, len.val)
                d3 == Advance(d2, len.val)
            IN IF str.st # "ok" THEN DFail(str, d2)
               ELSE IF HasAnalyzer(d3)
               THEN Analyzed(d3, sa_push_string(d3.stack_analyzer.v, str.val))
               ELSE NoAnalyzer(d3)

push_global(d, sc) ==
    LET d1 == Advance(d, 1)
        key == read_u16(sc, d1.cursor)
        d2 == Advance(d1, 2)
    IN IF key.st # "ok" THEN DFail(key, d1)
       ELSE IF HasAnalyzer(d2) THEN Analyzed(d2, sa_push_global(d2.stack_analyzer.v, key.val))
       ELSE NoAnalyzer(d2)

push_stack(d, sc) ==
    LET d1 == Advance(d, 1)
        offset == read_i8(sc, d1.cursor)
        d2 == Advance(d1, 1)
    IN IF offset.st # "ok" THEN DFail(offset, d1)
       ELSE IF HasAnalyzer(d2) THEN Analyzed(d2, sa_push_stack(d2.stack_analyzer.v, offset.val))
       ELSE NoAnalyzer(d2)

push_global_table(d, sc) ==
    LET addr == get_pc(d)
        d1 == Advance(d, 1)
        key == read_u16(sc, d1.cursor)
        d2 == Advance(d1, 2)
    IN IF key.st # "ok" THEN DFail(key, d1)
       ELSE IF ~HasAnalyzer(d2) THEN NoAnalyzer(d2)
       ELSE LET table == from_global(key.val)
                table_key == sa_pop(d2.stack_analyzer.v)
            IN IF table_key.st # "ok" THEN Analyzed(d2, table_key)
               ELSE Analyzed(d2, sa_push_expr(table_key.sa,
                        from_global_table_access(addr, table, table_key.val)))

push_local_table(d, sc) ==
    LET addr == get_pc(d)
        d1 == Advance(d, 1)
        idx == read_i8(sc, d1.cursor)
        d2 == Advance(d1, 1)
    IN IF idx.st # "ok" THEN DFail(idx, d1)
       ELSE IF ~HasAnalyzer(d2) THEN NoAnalyzer(d2)
       ELSE LET table == sa_get(d2.stack_analyzer.v, idx.val)
            IN IF table.st # "ok" THEN Analyzed(d2, table)
               ELSE LET table_key == sa_pop(table.sa)
                    IN IF table_key.st # "ok" THEN Analyzed(d2, table_key)
                       ELSE Analyzed(d2, sa_push_expr(table_key.sa,
                                from_local_table_access(addr, table.val, table_key.val)))

push_top(d) ==
    LET d1 == Advance(d, 1)
    IN IF HasAnalyzer(d1) THEN Analyzed(d1, sa_push_top(d1.stack_analyzer.v))
       ELSE NoAnalyzer(d1)

push_return_value(d) ==
    LET d1 == Advance(d, 1)
    IN IF HasAnalyzer(d1) THEN Analyzed(d1, sa_push_return_value(d1.stack_analyzer.v))
       ELSE NoAnalyzer(d1)

pop_global(d, sc) ==
    LET addr == get_pc(d)
        d1 == Advance(d, 1)
        key == read_u16(sc, d1.cursor)
        d2 == Advance(d1, 2)
    IN IF key.st # "ok" THEN DFail(key, d1)
       ELSE IF ~HasAnalyzer(d2) THEN NoAnalyzer(d2)
       ELSE LET right == sa_pop(d2.stack_analyzer.v)
                d3 == [d2 EXCEPT !.stack_analyzer = Some(right.sa)]
                left == from_global(key.val)
            IN IF right.st # "ok" THEN DFail(right, d3)
               ELSE push_statement_to_current_function(
                        d3, from_assign(addr, left, right.val))

\* mutant of local_copy: the popped value is stored in the local slot
local_copy_stores_value(d, sc) ==
    LET addr == get_pc(d)
        d1 == Advance(d, 1)
        idx == read_i8(sc, d1.cursor)
        d2 == Advance(d1, 1)
    IN IF idx.st # "ok" THEN DFail(idx, d1)
       ELSE IF ~HasAnalyzer(d2) THEN NoAnalyzer(d2)
       ELSE LET right == sa_pop(d2.stack_analyzer.v)
                d3 == [d2 EXCEPT !.stack_analyzer = Some(right.sa)]
                left == sa_get(right.sa, idx.val)
                stored == IF idx.val >= 0 /\ idx.val < Len(right.sa.local_variables)
                          THEN [right.sa EXCEPT !.local_variables[idx.val + 1] = right.val]
                          ELSE right.sa
                d4 == [d3 EXCEPT !.stack_analyzer = Some(stored)]
            IN IF right.st # "ok" THEN DFail(right, d3)
               ELSE IF left.st # "ok" THEN DFail(left, d3)
               ELSE push_statement_to_current_function(
                        d4, from_assign(addr, left.val, right.val))

local_copy(d, sc) ==
    LET addr == get_pc(d)
        d1 == Advance(d, 1)
        idx == read_i8(sc, d1.cursor)
        d2 == Advance(d1, 1)
    IN IF idx.st # "ok" THEN DFail(idx, d1)
       ELSE IF ~HasAnalyzer(d2) THEN NoAnalyzer(d2)
       ELSE LET right == sa_pop(d2.stack_analyzer.v)
                d3 == [d2 EXCEPT !.stack_analyzer = Some(right.sa)]
                left == sa_get(right.sa, idx.val)
            IN IF right.st # "ok" THEN DFail(right, d3)
               ELSE IF left.st # "ok" THEN DFail(left, d3)
               ELSE push_statement_to_current_function(
                        d3, from_assign(addr, left.val, right.val))

pop_global_table(d, sc) ==
    LET addr == get_pc(d)
        d1 == Advance(d, 1)
        key == read_u16(sc, d1.cursor)
        d2 == Advance(d1, 2)
    IN IF key.st # "ok" THEN DFail(key, d1)
       ELSE IF ~HasAnalyzer(d2) THEN NoAnalyzer(d2)
       ELSE LET right == sa_pop(d2.stack_analyzer.v)
                table_key == sa_pop(right.sa)
                d3 == [d2 EXCEPT !.stack_analyzer = Some(right.sa)]
                d4 == [d2 EXCEPT !.stack_analyzer = Some(table_key.sa)]
                table == from_global(key.val)
            IN IF right.st # "ok" THEN DFail(right, d3)
               ELSE IF table_key.st # "ok" THEN DFail(table_key, d4)
               ELSE push_statement_to_current_function(
                        d4,
                        from_assign(addr,
                                    from_expr(from_local_table_access(
                                                  addr, table, table_key.val)),
                                    right.val))

pop_local_table(d, sc) ==
    LET addr == get_pc(d)
        d1 == Advance(d, 1)
        idx == read_i8(sc, d1.cursor)
        d2 == Advance(d1, 1)
    IN IF idx.st # "ok" THEN DFail(idx, d1)
       ELSE IF ~HasAnalyzer(d2) THEN NoAnalyzer(d2)
       ELSE LET right == sa_pop(d2.stack_analyzer.v)
                table_key == sa_pop(right.sa)
                table == sa_get(table_key.sa, idx.val)
                d3 == [d2 EXCEPT !.stack_analyzer = Some(right.sa)]
                d4 == [d2 EXCEPT !.stack_analyzer = Some(table_key.sa)]
            IN IF right.st # "ok" THEN DFail(right, d3)
               ELSE IF table_key.st # "ok" THEN DFail(table_key, d4)
               ELSE IF table.st # "ok" THEN DFail(table, d4)
               ELSE push_statement_to_current_function(
                        d4,
                        from_assign(addr,
                                    from_expr(from_local_table_access(
                                                  addr, table.val, table_key.val)),
                                    right.val))

\* mutant of neg: the negated operand is popped and no result is pushed
neg_drops_result(d) ==
    LET addr == get_pc(d)
        d1 == Advance(d, 1)
    IN IF ~HasAnalyzer(d1) THEN NoAnalyzer(d1)
       ELSE Analyzed(d1, sa_pop(d1.stack_analyzer.v))

neg(d) ==
    LET addr == get_pc(d)
        d1 == Advance(d, 1)
    IN IF ~HasAnalyzer(d1) THEN NoAnalyzer(d1)
       ELSE LET var == sa_pop(d1.stack_analyzer.v)
            IN IF var.st # "ok" THEN Analyzed(d1, var)
               ELSE Analyzed(d1, sa_push_expr(var.sa,
                        from_unary_op(addr, "pvm_neg", var.val)))

\* The 14 binary handlers (add .. setge) have one body and differ in the
\* operator name only.
binary_op(d, op) ==
    LET addr == get_pc(d)
        d1 == Advance(d, 1)
    IN IF ~HasAnalyzer(d1) THEN NoAnalyzer(d1)
       ELSE LET right == sa_pop(d1.stack_analyzer.v)
            IN IF right.st # "ok" THEN Analyzed(d1, right)
               ELSE LET left == sa_pop(right.sa)
                    IN IF left.st # "ok" THEN Analyzed(d1, left)
                       ELSE Analyzed(d1, sa_push_expr(left.sa,
                                from_binary_op(addr, op, left.val, right.val)))

add(d) == binary_op(d, "pvm_add")
sub(d) == binary_op(d, "pvm_sub")
mul(d) == binary_op(d, "pvm_mul")
div(d) == binary_op(d, "pvm_div")
modulo(d) == binary_op(d, "pvm_mod")
bittest(d) == binary_op(d, "pvm_bittest")
and(d) == binary_op(d, "pvm_and")
or(d) == binary_op(d, "pvm_or")
sete(d) == binary_op(d, "pvm_sete")
setne(d) == binary_op(d, "pvm_setne")
setg(d) == binary_op(d, "pvm_setg")
setle(d) == binary_op(d, "pvm_setle")
setl(d) == binary_op(d, "pvm_setl")
setge(d) == binary_op(d, "pvm_setge")

\* mutant of routine_defination_pass: an unknown opcode is skipped as one byte
routine_defination_pass_skips_unknown(d, sc) ==
    LET opcode == read_u8(sc, get_pc(d))
    IN IF opcode.st # "ok" THEN DFail(opcode, d)
       ELSE LET o == TryIntoOpcode(opcode.val)
            IN CASE o = "InitStack" -> init_stack_bypass(d, sc)
                 [] o = "PushString" -> push_string_bypass(d, sc)
                 [] o \in {"Call", "Jmp", "Jz", "PushI32", "PushF32"} -> five_bytes_bypass(d)
                 [] o \in {"Syscall", "PushI16", "PushGlobal", "PushGlobalTable",
                           "PopGlobal", "PopGlobalTable"} -> three_bytes_bypass(d)
                 [] o \in {"PushI8", "PushStack", "PushLocalTable", "PopStack",
                           "PopLocalTable"} -> two_bytes_bypass(d)
                 [] OTHER -> one_byte_bypass(d)

routine_defination_pass(d, sc) ==
    LET opcode == read_u8(sc, get_pc(d))
    IN IF opcode.st # "ok" THEN DFail(opcode, d)
       ELSE LET o == TryIntoOpcode(opcode.val)
            IN CASE o = "Nop" -> one_byte_bypass(d)
                 [] o = "InitStack" -> init_stack_bypass(d, sc)
                 [] o = "Call" -> five_bytes_bypass(d)
                 [] o = "Syscall" -> three_bytes_bypass(d)
                 [] o = "Ret" -> one_byte_bypass(d)
                 [] o = "RetV" -> one_byte_bypass(d)
                 [] o = "Jmp" -> five_bytes_bypass(d)
                 [] o = "Jz" -> five_bytes_bypass(d)
                 [] o = "PushNil" -> one_byte_bypass(d)
                 [] o = "PushTrue" -> one_byte_bypass(d)
                 [] o = "PushI32" -> five_bytes_bypass(d)
                 [] o = "PushI16" -> three_bytes_bypass(d)
                 [] o = "PushI8" -> two_bytes_bypass(d)
                 [] o = "PushF32" -> five_bytes_bypass(d)
                 [] o = "PushString" -> push_string_bypass(d, sc)
                 [] o = "PushGlobal" -> three_bytes_bypass(d)
                 [] o = "PushStack" -> two_bytes_bypass(d)
                 [] o = "PushGlobalTable" -> three_bytes_bypass(d)
                 [] o = "PushLocalTable" -> two_bytes_bypass(d)
                 [] o = "PushTop" -> one_byte_bypass(d)
                 [] o = "PushReturn" -> one_byte_bypass(d)
                 [] o = "PopGlobal" -> three_bytes_bypass(d)
                 [] o = "PopStack" -> two_bytes_bypass(d)
                 [] o = "PopGlobalTable" -> three_bytes_bypass(d)
                 [] o = "PopLocalTable" -> two_bytes_bypass(d)
                 [] o \in {"Neg", "Add", "Sub", "Mul", "Div", "Mod", "BitTest", "And",
                           "Or", "SetE", "SetNE", "SetG", "SetLE", "SetL", "SetGE"}
                        -> one_byte_bypass(d)
                 [] OTHER -> DFail(Err("unexpected opcode"), d)

disassemble_pass(d, sc) ==
    LET opcode == read_u8(sc, get_pc(d))
    IN IF opcode.st # "ok" THEN DFail(opcode, d)
       ELSE LET o == TryIntoOpcode(opcode.val)
            IN CASE o = "Nop" -> nop(d)
                 [] o = "InitStack" -> init_stack(d)
                 [] o = "Call" -> call(d, sc)
                 [] o = "Syscall" -> syscall(d, sc)
                 [] o = "Ret" -> ret(d)
                 [] o = "RetV" -> retv(d)
                 [] o = "Jmp" -> jmp(d, sc)
                 [] o = "Jz" -> jz(d, sc)
                 [] o = "PushNil" -> push_nil(d)
                 [] o = "PushTrue" -> push_true(d)
                 [] o = "PushI32" -> push_i32(d, sc)
                 [] o = "PushI16" -> push_i16(d, sc)
                 [] o = "PushI8" -> push_i8(d, sc)
                 [] o = "PushF32" -> push_f32(d, sc)
                 [] o = "PushString" -> push_string(d, sc)
                 [] o = "PushGlobal" -> push_global(d, sc)
                 [] o = "PushStack" -> push_stack(d, sc)
                 [] o = "PushGlobalTable" -> push_global_table(d, sc)
                 [] o = "PushLocalTable" -> push_local_table(d, sc)
                 [] o = "PushTop" -> push_top(d)
                 [] o = "PushReturn" -> push_return_value(d)
                 [] o = "PopGlobal" -> pop_global(d, sc)
                 [] o = "PopStack" -> local_copy(d, sc)
                 [] o = "PopGlobalTable" -> pop_global_table(d, sc)
                 [] o = "PopLocalTable" -> pop_local_table(d, sc)
                 [] o = "Neg" -> neg(d)
                 [] o = "Add" -> add(d)
                 [] o = "Sub" -> sub(d)
                 [] o = "Mul" -> mul(d)
                 [] o = "Div" -> div(d)
                 [] o = "Mod" -> modulo(d)
                 [] o = "BitTest" -> bittest(d)
                 [] o = "And" -> and(d)
                 [] o = "Or" -> or(d)
                 [] o = "SetE" -> sete(d)
                 [] o = "SetNE" -> setne(d)
                 [] o = "SetG" -> setg(d)
                 [] o = "SetLE" -> setle(d)
                 [] o = "SetL" -> setl(d)
                 [] o = "SetGE" -> setge(d)
                 [] OTHER -> nop(d)


(***************************************************************************)
(* Harness of the NamedVariant constructors: from_arg and from_local        *)
(* applied to every 8-bit index, in both build profiles.                    *)
(***************************************************************************)
Payloads == {VNil, VInt(5)}

InitNV ==
    /\ pc = "nv"
    /\ overflow_checks \in BOOLEAN
    /\ \E index \in I8, variant \in Payloads :
          last = Call("input", [index |-> index, variant |-> variant], Ok(Unit), Unit)
    /\ scenario = NoScenario
    /\ cursor = 4
    /\ functions = EmptyMap
    /\ stack_analyzer = None
    /\ current_function_address = None
    /\ shadow = <<>>
    /\ hist = NoHist

CallFromArg ==
    /\ pc = "nv"
    /\ pc' = "nv_done"
    /\ last' = Call("from_arg", last.arg, from_arg(last.arg.index, last.arg.variant), Unit)
    /\ UNCHANGED <<scenario, cursor, functions, stack_analyzer,
                   current_function_address, overflow_checks, shadow, hist>>

CallFromLocal ==
    /\ pc = "nv"
    /\ pc' = "nv_done"
    /\ last' = Call("from_local", last.arg, from_local(last.arg.index, last.arg.variant), Unit)
    /\ UNCHANGED <<scenario, cursor, functions, stack_analyzer,
                   current_function_address, overflow_checks, shadow, hist>>

NextNV == CallFromArg \/ CallFromLocal

SpecNV == InitNV /\ [][NextNV]_vars

(***************************************************************************)
(* Harness of the StackAnalyzer: any sequence of its public methods on an   *)
(* analyzer made by StackAnalyzer::new.  The backing Vec only grows, so     *)
(* the number of pushes is bounded.                                         *)
(***************************************************************************)
MaxPushes == 2

NewLocals == {0, 1, 2, 127, 128}
NewArgs == {0}
StackIndexes == {-128, -2, -1, 0, 1, 127}
SomeStatement == from_return(0, FALSE)

InitSA ==
    /\ pc = "sa"
    /\ overflow_checks \in BOOLEAN
    /\ \E local \in NewLocals, args \in NewArgs :
          /\ stack_analyzer = Some(StackAnalyzer_new(local, args))
          /\ last = Call("new", [local |-> local, args |-> args], Ok(Unit), Unit)
    /\ scenario = NoScenario
    /\ cursor = 4
    /\ functions = EmptyMap
    /\ current_function_address = None
    /\ shadow = <<>>
    /\ hist = NoHist

Sa == stack_analyzer.v

CanPush == Len(Sa.local_variables) < Sa.local_count + MaxPushes

\* the effect of one method call with result r on the harness
SaCalled(op, arg, r) ==
    /\ stack_analyzer' = Some(r.sa)
    /\ pc' = IF r.st = "panic" THEN "panic" ELSE pc
    /\ last' = Call(op, arg, r,
                    IF op = "pop" /\ shadow # <<>> THEN shadow[Len(shadow)] ELSE Unit)
    /\ shadow' = IF r.st # "ok" \/ op = "get" THEN shadow
                 ELSE IF op = "pop" THEN SubSeq(shadow, 1, Len(shadow) - 1)
                 ELSE Append(shadow, r.sa.local_variables[Len(r.sa.local_variables)])
    /\ UNCHANGED <<scenario, cursor, functions, current_function_address,
                   overflow_checks, hist>>

CallPushNil == pc = "sa" /\ CanPush /\ SaCalled("push_nil", Unit, sa_push_nil(Sa))

CallPushTrue == pc = "sa" /\ CanPush /\ SaCalled("push_true", Unit, sa_push_true(Sa))

CallPushInt ==
    pc = "sa" /\ CanPush /\ \E value \in {5} : SaCalled("push_int", value, sa_push_int(Sa, value))

CallPushFloat ==
    pc = "sa" /\ CanPush /\ \E value \in {0} : SaCalled("push_float", value, sa_push_float(Sa, value))

CallPushString ==
    pc = "sa" /\ CanPush /\ \E value \in {<<97>>} : SaCalled("push_string", value, sa_push_string(Sa, value))

CallPushGlobal ==
    pc = "sa" /\ CanPush /\ \E slot \in {1} : SaCalled("push_global", slot, sa_push_global(Sa, slot))

CallPushStack ==
    pc = "sa" /\ CanPush /\ \E idx \in StackIndexes : SaCalled("push_stack", idx, sa_push_stack(Sa, idx))

CallPushTop == pc = "sa" /\ CanPush /\ SaCalled("push_top", Unit, sa_push_top(Sa))

CallPushReturnValue ==
    pc = "sa" /\ CanPush /\ SaCalled("push_return_value", Unit, sa_push_return_value(Sa))

CallPushExpr ==
    pc = "sa" /\ CanPush /\ SaCalled("push_expr", SomeStatement, sa_push_expr(Sa, SomeStatement))

CallPop == pc = "sa" /\ SaCalled("pop", Unit, sa_pop(Sa))

CallGet == pc = "sa" /\ \E idx \in StackIndexes : SaCalled("get", idx, sa_get(Sa, idx))

NextSA ==
    \/ CallPushNil \/ CallPushTrue \/ CallPushInt \/ CallPushFloat \/ CallPushString
    \/ CallPushGlobal \/ CallPushStack \/ CallPushTop \/ CallPushReturnValue
    \/ CallPushExpr \/ CallPop \/ CallGet

SpecSA == InitSA /\ [][NextSA]_vars

(***************************************************************************)
(* disassemble: the two passes as steps of the driver loop.                 *)
(*   pc = "pass1": in `while get_pc() < sys_desc_offset { routine_defination_pass }` *)
(*   pc = "pass2": after rewind, in the second while loop                   *)
(*   pc = "done": disassemble returned Ok; "error": it returned Err;        *)
(*   "panic": it panicked.                                                  *)
(***************************************************************************)
Self ==
    [cursor |-> cursor, functions |-> functions, stack_analyzer |-> stack_analyzer,
     current_function_address |-> current_function_address]

Becomes(d) ==
    /\ cursor' = d.cursor
    /\ functions' = d.functions
    /\ stack_analyzer' = d.stack_analyzer
    /\ current_function_address' = d.current_function_address

Outcome(r, continue) ==
    IF r.st = "ok" THEN continue ELSE IF r.st = "err" THEN "error" ELSE "panic"

Pass1Step ==
    /\ pc = "pass1"
    /\ get_pc(Self) < get_sys_desc_offset(scenario)
    /\ LET r == routine_defination_pass(Self, scenario)
       IN /\ Becomes(r.d)
          /\ pc' = Outcome(r, "pass1")
          /\ last' = Call("routine_defination_pass", cursor, r, Unit)
    /\ hist' = [hist EXCEPT !.p1 = Append(@, cursor)]
    /\ UNCHANGED <<scenario, overflow_checks, shadow>>

Rewind ==
    /\ pc = "pass1"
    /\ ~(get_pc(Self) < get_sys_desc_offset(scenario))
    /\ Becomes(rewind(Self))
    /\ pc' = "pass2"
    /\ last' = Call("rewind", cursor, Ok(Unit), Unit)
    /\ hist' = [hist EXCEPT !.p1_end = cursor, !.rewinds = @ + 1]
    /\ UNCHANGED <<scenario, overflow_checks, shadow>>

Pass2Step ==
    /\ pc = "pass2"
    /\ get_pc(Self) < get_sys_desc_offset(scenario)
    /\ LET r == disassemble_pass(Self, scenario)
       IN /\ Becomes(r.d)
          /\ pc' = Outcome(r, "pass2")
          /\ last' = Call("disassemble_pass", cursor, r, Unit)
    /\ hist' = [hist EXCEPT !.p2 = Append(@, cursor)]
    /\ UNCHANGED <<scenario, overflow_checks, shadow>>

\* the end of disassemble: println!("{:?}", self.functions.values().last().unwrap())
Finish ==
    /\ pc = "pass2"
    /\ ~(get_pc(Self) < get_sys_desc_offset(scenario))
    /\ pc' = IF DOMAIN functions = {} THEN "panic" ELSE "done"
    /\ last' = Call("finish", cursor, Ok(Unit), Unit)
    /\ UNCHANGED <<scenario, cursor, functions, stack_analyzer,
                   current_function_address, overflow_checks, shadow, hist>>

Next == Pass1Step \/ Rewind \/ Pass2Step \/ Finish

(***************************************************************************)
(* Input files.  An instruction is the sequence of its bytes; a program is  *)
(* a sequence of instructions laid out after the 4-byte header.             *)
(***************************************************************************)
LE16(v) == <<v % 256, v \div 256>>
LE32(v) == <<v % 256, (v \div 256) % 256, (v \div 65536) % 256, v \div 16777216>>

I_Nop == <<0>>
I_InitStack(args, locals) == <<1, args, locals>>
I_Call(target) == <<2>> \o LE32(target)
I_Syscall(id) == <<3>> \o LE16(id)
I_Ret == <<4>>
I_RetV == <<5>>
I_Jmp(target) == <<6>> \o LE32(target)
I_Jz(target) == <<7>> \o LE32(target)
I_PushNil == <<8>>
I_PushTrue == <<9>>
I_PushI32(v) == <<10>> \o LE32(v)
I_PushI16(v) == <<11>> \o LE16(v)
I_PushI8(v) == <<12, I8AsU8(v)>>
I_PushF32(bytes) == <<13>> \o bytes
I_PushString(bytes) == <<14, Len(bytes)>> \o bytes
I_PushGlobal(key) == <<15>> \o LE16(key)
I_PushStack(idx) == <<16, I8AsU8(idx)>>
I_PushGlobalTable(key) == <<17>> \o LE16(key)
I_PushLocalTable(idx) == <<18, I8AsU8(idx)>>
I_PushTop == <<19>>
I_PushReturn == <<20>>
I_PopGlobal(key) == <<21>> \o LE16(key)
I_PopStack(idx) == <<22, I8AsU8(idx)>>
I_PopGlobalTable(key) == <<23>> \o LE16(key)
I_PopLocalTable(idx) == <<24, I8AsU8(idx)>>
I_Neg == <<25>>
I_Binary(k) == <<26 + k>>
I_Unknown == <<40>>

BinaryNames ==
    << "pvm_add", "pvm_sub", "pvm_mul", "pvm_div", "pvm_mod", "pvm_bittest", "pvm_and",
       "pvm_or", "pvm_sete", "pvm_setne", "pvm_setg", "pvm_setle", "pvm_setl", "pvm_setge" >>

Header == <<0, 0, 0, 0>>

RECURSIVE Flatten(_)
Flatten(prog) == IF prog = <<>> THEN <<>> ELSE Head(prog) \o Flatten(Tail(prog))

RECURSIVE SeqsUpTo(_, _)
SeqsUpTo(S, n) ==
    IF n = 0 THEN {<<>>}
    ELSE {<<>>} \cup {<<x>> \o t : x \in S, t \in SeqsUpTo(S, n - 1)}

SyscallTable == [id \in {0, 2} |-> [name |-> <<115, id>>, args |-> id \div 2 + 1]]

\* how far before the end of the last instruction the stream's end offset may lie
MaxCut == 1

\* the file of a program whose routine stream ends cut bytes before the end
\* of its last instruction (cut = 0: at an instruction boundary)
File(prog, cut) ==
    [data |-> Header \o Flatten(prog),
     sys_desc_offset |-> Len(Header) + Len(Flatten(prog)) - cut,
     syscalls |-> SyscallTable]

Cuts(prog, maxcut) ==
    {c \in 0 .. maxcut : c = 0 \/ (prog # <<>> /\ c < Len(prog[Len(prog)]))}

\* Disassembler::new on the file of one of progs, about to run disassemble
Loaded(progs, maxcut) ==
    /\ pc = "pass1"
    /\ overflow_checks \in BOOLEAN
    /\ \E prog \in progs : \E cut \in Cuts(prog, maxcut) : scenario = File(prog, cut)
    /\ cursor = Disassembler_new(scenario).cursor
    /\ functions = Disassembler_new(scenario).functions
    /\ stack_analyzer = Disassembler_new(scenario).stack_analyzer
    /\ current_function_address = Disassembler_new(scenario).current_function_address
    /\ last = NoCall
    /\ shadow = <<>>
    /\ hist = NoHist

\* one instruction of every opcode, with the operand values that matter
Alphabet ==
    { I_Nop, I_InitStack(0, 0), I_InitStack(2, 1), I_Call(4), I_Call(9), I_Syscall(0),
      I_Syscall(1), I_Ret, I_RetV, I_Jmp(4), I_Jz(4), I_PushNil, I_PushTrue,
      I_PushI32(5), I_PushI16(3), I_PushI8(-1), I_PushF32(<<0, 0, 128, 63>>),
      I_PushString(<<0, 8>>), I_PushString(<<>>), I_PushGlobal(1), I_PushStack(0),
      I_PushStack(-1), I_PushStack(-2), I_PushStack(-128), I_PushGlobalTable(1),
      I_PushLocalTable(0), I_PushTop, I_PushReturn, I_PopGlobal(1), I_PopStack(0),
      I_PopStack(5), I_PopGlobalTable(1), I_PopLocalTable(0), I_Neg, I_Unknown }
    \cup { I_Binary(k) : k \in 0 .. 13 }

\* no routine, or a routine with one argument and two locals holding two operands
Prefixes == { <<>>, <<I_InitStack(1, 2), I_PushNil, I_PushTrue>> }

Programs == { p \o t : p \in Prefixes, t \in SeqsUpTo(Alphabet, 2) }

Init == Loaded(Programs, MaxCut)

Spec == Init /\ [][Next]_vars

(***************************************************************************)
(* SpecArith: one routine that pushes 5 and 3 and applies a binary          *)
(* operator, after a few earlier pushes and pops and before a few stores.   *)
(***************************************************************************)
MaxPre == 2

PreAlphabet == { I_PushNil, I_PopGlobal(2), I_Neg }
PostAlphabet == { I_PopGlobal(1), I_Ret }

ArithPrograms ==
    { <<I_InitStack(0, 0)>> \o pre \o <<I_PushI32(5), I_PushI32(3), I_Binary(k)>> \o post :
        pre \in SeqsUpTo(PreAlphabet, MaxPre), k \in 0 .. 13,
        post \in SeqsUpTo(PostAlphabet, 2) }

InitArith == Loaded(ArithPrograms, 0)

SpecArith == InitArith /\ [][Next]_vars

(***************************************************************************)
(* SpecCall: routines declaring one and two arguments, pushes, and calls    *)
(* of the two addresses at which a routine can start.                       *)
(***************************************************************************)
MaxBody == 4

CallAlphabet ==
    { I_InitStack(1, 0), I_InitStack(2, 0), I_PushNil, I_PushTrue, I_Call(4), I_Call(7) }

CallPrograms == SeqsUpTo(CallAlphabet, MaxBody)

InitCall == Loaded(CallPrograms, 0)

SpecCall == InitCall /\ [][Next]_vars

(***************************************************************************)
(* SpecUnit: disassemble as in Spec, and besides it disassemble_pass        *)
(* applied on its own (as a caller inside the crate can) to the bytes of a  *)
(* stream holding unknown opcode bytes, by a disassembler that is rewound   *)
(* and whose routine table was discovered on the same stream with Nop in    *)
(* place of each unknown byte.                                              *)
(***************************************************************************)
RECURSIVE discover(_, _)
discover(d, sc) ==
    IF get_pc(d) < get_sys_desc_offset(sc)
    THEN LET r == routine_defination_pass(d, sc)
         IN IF r.st = "ok" THEN discover(r.d, sc) ELSE r
    ELSE DOk(d)

Known(prog) == [i \in DOMAIN prog |-> IF prog[i] = I_Unknown THEN I_Nop ELSE prog[i]]

UnknownPrograms == { p \in Programs : \E i \in DOMAIN p : p[i] = I_Unknown }

InitPass2 ==
    /\ pc = "pass2"
    /\ overflow_checks \in BOOLEAN
    /\ \E prog \in UnknownPrograms :
          LET found == discover(Disassembler_new(File(Known(prog), 0)), File(Known(prog), 0))
          IN /\ scenario = File(prog, 0)
             /\ found.st = "ok"
             /\ cursor = rewind(found.d).cursor
             /\ functions = rewind(found.d).functions
             /\ stack_analyzer = rewind(found.d).stack_analyzer
             /\ current_function_address = rewind(found.d).current_function_address
    /\ last = Call("unit", Unit, Ok(Unit), Unit)
    /\ shadow = <<>>
    /\ hist = NoHist

InitUnit == Init \/ InitPass2

SpecUnit == InitUnit /\ [][Next]_vars

(***************************************************************************)
(* SpecTarget: calls of addresses before and after the call, at which a     *)
(* routine starts, at which another instruction starts, inside an           *)
(* instruction (offset 5 holds the byte 1 after InitStack(1, 0)) and past   *)
(* the stream.                                                              *)
(***************************************************************************)
MaxTarget == 4

TargetAlphabet ==
    { I_InitStack(0, 0), I_InitStack(1, 0), I_PushNil, I_Call(4), I_Call(5), I_Call(12) }

TargetPrograms == SeqsUpTo(TargetAlphabet, MaxTarget)

InitTarget == Loaded(TargetPrograms, 0)

SpecTarget == InitTarget /\ [][Next]_vars


(***************************************************************************)
(* SpecSys: one routine that pushes operands and issues syscalls with the   *)
(* ids 0 (one argument), 1 (no descriptor) and 2 (two arguments).           *)
(***************************************************************************)
MaxSys == 4

SysAlphabet == { I_PushNil, I_PushTrue, I_Syscall(0), I_Syscall(1), I_Syscall(2) }

SysPrograms == { <<I_InitStack(0, 0)>> \o body : body \in SeqsUpTo(SysAlphabet, MaxSys) }

InitSys == Loaded(SysPrograms, 0)

SpecSys == InitSys /\ [][Next]_vars

(***************************************************************************)
(* SpecLive: disassemble over one instruction of every opcode, outside and *)
(* inside a routine, and disassemble_pass over the streams with unknown     *)
(* bytes, with the driver always taking its next step: the loops of         *)
(* disassemble run on a single thread and nothing suspends them.            *)
(***************************************************************************)
LivePrograms == { p \o t : p \in Prefixes, t \in SeqsUpTo(Alphabet, 1) }

InitLive == Loaded(LivePrograms, MaxCut) \/ InitPass2

SpecLive == InitLive /\ [][Next]_vars /\ WF_vars(Next)

(***************************************************************************)
(* SpecTable: routine headers with small and with large counts (255         *)
(* arguments, 128 locals) between instructions whose operand bytes equal    *)
(* the init-stack opcode.                                                   *)
(***************************************************************************)
MaxTable == 3

TableAlphabet ==
    { I_InitStack(0, 0), I_InitStack(1, 2), I_InitStack(255, 128), I_Nop, I_Ret,
      I_PushI8(1), I_PushString(<<1, 0, 0>>) }

TablePrograms == SeqsUpTo(TableAlphabet, MaxTable)

InitTable == Loaded(TablePrograms, MaxCut)

SpecTable == InitTable /\ [][Next]_vars

(***************************************************************************)
(* SpecRoutines: streams of several routines that push, store and return.   *)
(***************************************************************************)
MaxRoutine == 5

RoutineAlphabet == { I_InitStack(0, 0), I_PushNil, I_PopGlobal(1), I_Ret }

RoutinePrograms == SeqsUpTo(RoutineAlphabet, MaxRoutine)

InitRoutines == Loaded(RoutinePrograms, 0)

SpecRoutines == InitRoutines /\ [][Next]_vars

(***************************************************************************)
(* SpecArgs: a routine of two arguments that, after a few earlier pushes    *)
(* and pops, pushes 5 and 3 and calls itself.                               *)
(***************************************************************************)
MaxArgsPre == 2

ArgsPrograms ==
    { <<I_InitStack(2, 0)>> \o pre \o <<I_PushI32(5), I_PushI32(3), I_Call(4)>> \o post :
        pre \in SeqsUpTo(PreAlphabet, MaxArgsPre), post \in SeqsUpTo(PostAlphabet, 1) }

InitArgs == Loaded(ArgsPrograms, 0)

SpecArgs == InitArgs /\ [][Next]_vars

(***************************************************************************)
(* Harness of is_same_register: the query applied to every pair of          *)
(* references of a small set, and then to the same pair swapped.            *)
(***************************************************************************)
References ==
    { StackIndexed("local0", VNil), StackIndexed("local0", VInt(5)),
      StackIndexed("local1", VNil), StackIndexed("arg0", VNil),
      ReturnValue, Global(0), Global(1),
      Expr(from_return(0, FALSE)),
      Expr(from_unary_op(4, "pvm_neg", StackIndexed("local0", VNil))) }

InitReg ==
    /\ pc = "reg"
    /\ overflow_checks = FALSE
    /\ \E self \in References, other \in References :
          last = Call("input", [self |-> self, other |-> other], Ok(Unit), Unit)
    /\ scenario = NoScenario
    /\ cursor = 4
    /\ functions = EmptyMap
    /\ stack_analyzer = None
    /\ current_function_address = None
    /\ shadow = <<>>
    /\ hist = NoHist

\* self.is_same_register(&other)
CallIsSameRegister ==
    /\ pc = "reg"
    /\ pc' = "reg_done"
    /\ last' = Call("is_same_register", last.arg,
                    Ok(is_same_register(last.arg.self, last.arg.other)), Unit)
    /\ UNCHANGED <<scenario, cursor, functions, stack_analyzer,
                   current_function_address, overflow_checks, shadow, hist>>

\* other.is_same_register(&self); the result of the first call is kept in expected
CallIsSameRegisterSwapped ==
    /\ pc = "reg_done"
    /\ pc' = "reg_swapped"
    /\ last' = Call("is_same_register", [self |-> last.arg.other, other |-> last.arg.self],
                    Ok(is_same_register(last.arg.other, last.arg.self)), last.res.val)
    /\ UNCHANGED <<scenario, cursor, functions, stack_analyzer,
                   current_function_address, overflow_checks, shadow, hist>>

NextReg == CallIsSameRegister \/ CallIsSameRegisterSwapped

SpecReg == InitReg /\ [][NextReg]_vars

(***************************************************************************)
(* Claims about the NamedVariant constructors (SpecNV)                      *)
(***************************************************************************)
ArgCalled == pc = "nv_done" /\ last.op = "from_arg"
LocalCalled == pc = "nv_done" /\ last.op = "from_local"

\* C9 (as stated): for every 8-bit index i <= -2, i = -128 included, from_arg(i)
\* succeeds with a StackIndexed reference named arg{|i|-2} carrying the given
\* payload; for every i >= -1 it fails.
C9_FromArgAllIndexes ==
    ArgCalled =>
        IF last.arg.index <= -2
        THEN /\ last.res.st = "ok"
             /\ last.res.val = StackIndexed("arg" \o ToString(-last.arg.index - 2),
                                            last.arg.variant)
        ELSE last.res.st = "err"

\* C10: for every 8-bit index i, from_local(i) yields the StackIndexed reference
\* named local{i} (with the given payload) when i >= 0 and fails when i < 0.
C10_FromLocal ==
    LocalCalled =>
        IF last.arg.index >= 0
        THEN /\ last.res.st = "ok"
             /\ last.res.val = StackIndexed("local" \o ToString(last.arg.index),
                                            last.arg.variant)
        ELSE last.res.st = "err"

C10_Witness ==
    /\ LocalCalled
    /\ last.arg.index = 0
    /\ last.res.st = "ok"
    /\ last.res.val.name = "local0"

(***************************************************************************)
(* Claims about the StackAnalyzer (SpecSA)                                  *)
(***************************************************************************)
\* C2 (as stated): the operand area is a LIFO stack: every successful pop returns
\* the reference pushed by the most recent push not yet popped.
C2_PopReturnsLastPushed ==
    (pc = "sa" /\ last.op = "pop" /\ last.res.st = "ok") => last.res.val = last.expected

\* C3: an analyzer made by StackAnalyzer::new(local, args) has exactly `local`
\* slots and cur_top = local_count = local, and cur_top >= local_count in every
\* state reached by push*, pop, push_top, push_stack and get.
C3_CurTopNeverBelowLocals ==
    stack_analyzer.tag = "Some" =>
        /\ Sa.cur_top >= Sa.local_count
        /\ last.op = "new" =>
              /\ Sa.local_count = last.arg.local
              /\ Sa.cur_top = Sa.local_count
              /\ Len(Sa.local_variables) = Sa.local_count

\* a pop refused at the bottom of the operand area, after pushes and pops, above
\* declared locals
C3_Witness ==
    /\ pc = "sa"
    /\ last.op = "pop"
    /\ last.res.st = "err"
    /\ Sa.local_count > 0
    /\ Sa.cur_top = Sa.local_count
    /\ Len(Sa.local_variables) > Sa.local_count

(***************************************************************************)
(* Claims about disassemble                                                 *)
(***************************************************************************)
EndOffset == get_sys_desc_offset(scenario)

\* the pass-2 loop ran to its end
Pass2Completed == last.op = "finish"

\* the opcode the last pass step dispatched on
LastOpcode == TryIntoOpcode(Byte(scenario, last.arg))

Stepped1 == last.op = "routine_defination_pass"
Stepped2 == last.op = "disassemble_pass"

IsPrefix(a, b) == Len(a) <= Len(b) /\ SubSeq(b, 1, Len(a)) = a

C1Program ==
    << I_InitStack(0, 0), I_PushI32(5), I_PushI32(3), I_Binary(0), I_PopGlobal(1), I_Ret >>

\* C1 (as stated): disassemble over InitStack(0,0); PushI32(5); PushI32(3); Add;
\* PopGlobal(1); Ret yields one Routine whose statements are exactly
\* Assign{Global{1}, Expr(BinaryOp("pvm_add", the reference pushed for 5, the
\* reference pushed for 3))} and Return{has_value = false}.
C1_EndToEnd ==
    (pc = "done" /\ scenario = File(C1Program, 0)) =>
        /\ DOMAIN functions = {4}
        /\ Len(functions[4].statements) = 2
        /\ LET assign == functions[4].statements[1]
               return == functions[4].statements[2]
           IN /\ assign.tag = "Assign"
              /\ assign.target = Global(1)
              /\ assign.value.tag = "Expr"
              /\ assign.value.expr.tag = "BinaryOp"
              /\ assign.value.expr.op = "pvm_add"
              /\ assign.value.expr.lhs = StackIndexed("local0", VInt(5))
              /\ assign.value.expr.rhs = StackIndexed("local1", VInt(3))
              /\ return.tag = "Return"
              /\ return.has_value = FALSE

\* C7 (as stated): a binary opcode executed right after pushing operand A = 5 and
\* then operand B = 3 succeeds and pushes Expr(BinaryOp) with the opcode's
\* pvm_ name, lhs = the reference holding A and rhs = the reference holding B.
C7_BinaryOperandOrder ==
    (/\ Stepped2
     /\ Len(hist.p2) >= 3
     /\ \E k \in 0 .. 13 :
           /\ Byte(scenario, last.arg) = 26 + k
           /\ hist.p2[Len(hist.p2) - 1] = last.arg - 5
           /\ hist.p2[Len(hist.p2) - 2] = last.arg - 10
           /\ SubSeq(scenario.data, last.arg - 9, last.arg) = I_PushI32(5) \o I_PushI32(3))
    => /\ last.res.st = "ok"
       /\ LET top == Sa.local_variables[Len(Sa.local_variables)]
          IN /\ top.tag = "Expr"
             /\ top.expr.tag = "BinaryOp"
             /\ top.expr.address = last.arg
             /\ top.expr.op = BinaryNames[Byte(scenario, last.arg) - 25]
             /\ top.expr.lhs.tag = "StackIndexed"
             /\ top.expr.lhs.variant = VInt(5)
             /\ top.expr.rhs.tag = "StackIndexed"
             /\ top.expr.rhs.variant = VInt(3)

Statements == UNION { { functions[a].statements[i] : i \in DOMAIN functions[a].statements } :
                      a \in DOMAIN functions }

Depth(sa) == sa.cur_top - sa.local_count

CallArgsMatchCallee ==
    \A st \in Statements :
        st.tag = "Call" =>
            /\ st.target \in DOMAIN functions
            /\ Len(st.args) = functions[st.target].args_count

CallWithTooFewOperands ==
    /\ pc = "pass2"
    /\ cursor < EndOffset
    /\ TryIntoOpcode(Byte(scenario, cursor)) = "Call"
    /\ read_u32(scenario, cursor + 1).val \in DOMAIN functions
    /\ stack_analyzer.tag = "Some"
    /\ Depth(Sa) < functions[read_u32(scenario, cursor + 1).val].args_count

\* C4: every Call statement of a routine has as many args as the args_count
\* recorded in pass 1 for the routine at its target; a call met with fewer
\* operands than that fails and appends no statement.
C4_CallArity ==
    /\ [] CallArgsMatchCallee
    /\ [][ CallWithTooFewOperands =>
              /\ pc' = "error"
              /\ \A a \in DOMAIN functions :
                    functions'[a].statements = functions[a].statements ]_vars

\* a call of a routine declaring two arguments was emitted
C4_Witness ==
    /\ Stepped2
    /\ LastOpcode = "Call"
    /\ last.res.st = "ok"
    /\ \E st \in Statements : st.tag = "Call" /\ st.address = last.arg /\ Len(st.args) = 2

\* C5: when both passes complete, pass 2 has visited exactly the opcode offsets
\* pass 1 visited, in the same order, and ends with the cursor pass 1 ended with.
C5_SameOffsets ==
    /\ hist.rewinds = 1 => IsPrefix(hist.p2, hist.p1)
    /\ Pass2Completed => (hist.p2 = hist.p1 /\ cursor = hist.p1_end)

\* both passes completed over a stream holding a push-string with a 2-byte body
C5_Witness ==
    /\ Pass2Completed
    /\ hist.rewinds = 1
    /\ \E i \in DOMAIN hist.p2 :
          /\ Byte(scenario, hist.p2[i]) = 14
          /\ Byte(scenario, hist.p2[i] + 1) = 2

\* C6 (as stated): a pass that terminates normally ends with the cursor exactly
\* at the routine-stream end offset.
C6_FinalCursorIsEnd ==
    /\ hist.rewinds = 1 => hist.p1_end = EndOffset
    /\ Pass2Completed => cursor = EndOffset

UnknownAtCursor == TryIntoOpcode(Byte(scenario, cursor)) = "Unknown"

\* C8: an unknown opcode byte met in pass 1 makes disassemble return an error
\* before rewind and pass 2; met in pass 2, the step succeeds, the cursor
\* advances by one byte, and the analyzer, the active routine and the routine
\* table stay as they are.
C8_UnknownOpcode ==
    /\ []( (Stepped1 /\ LastOpcode = "Unknown") =>
              (pc = "error" /\ hist.rewinds = 0 /\ hist.p2 = <<>>) )
    /\ [][ (pc = "error" => pc' = "error")
           /\ ( (pc = "pass2" /\ cursor < EndOffset /\ UnknownAtCursor) =>
                   /\ pc' = "pass2"
                   /\ cursor' = cursor + 1
                   /\ UNCHANGED <<stack_analyzer, current_function_address, functions>> ) ]_vars

\* pass 2 has stepped over an unknown byte inside an active routine with operands
C8_Witness ==
    /\ Stepped2
    /\ LastOpcode = "Unknown"
    /\ stack_analyzer.tag = "Some"
    /\ Depth(Sa) = 2
    /\ current_function_address = Some(4)

(***************************************************************************)
(* Claims about the StackAnalyzer methods (SpecSA)                          *)
(***************************************************************************)
\* C11: push_stack(idx) fails for idx = -1 and for every idx >= local_count,
\* and a push_stack that fails leaves cur_top and the stored entries unchanged.
C11_PushStackRejects ==
    [][ last'.op = "push_stack" =>
           /\ (last'.arg = -1 \/ last'.arg >= Sa.local_count) => last'.res.st = "err"
           /\ last'.res.st # "ok" => stack_analyzer' = stack_analyzer ]_vars

\* push_stack was refused for the index of an operand slot that holds an entry
C11_Witness ==
    /\ last.op = "push_stack"
    /\ last.res.st = "err"
    /\ last.arg >= Sa.local_count
    /\ last.arg < Len(Sa.local_variables)
    /\ Sa.cur_top > Sa.local_count

\* C12: pop fails exactly when cur_top = local_count and then changes nothing;
\* otherwise it decrements cur_top by one, returns the entry stored at the new
\* cur_top index and overwrites that index with StackIndexed{local{cur_top}, Nil}.
C12_PopContract ==
    [][ last'.op = "pop" =>
           IF Sa.cur_top = Sa.local_count
           THEN /\ last'.res.st = "err"
                /\ stack_analyzer' = stack_analyzer
           ELSE /\ last'.res.st = "ok"
                /\ last'.res.val = Sa.local_variables[Sa.cur_top]
                /\ Sa' = [Sa EXCEPT !.cur_top = Sa.cur_top - 1,
                                    !.local_variables[Sa.cur_top] =
                                        StackIndexed("local" \o ToString(Sa.cur_top - 1), VNil)]
      ]_vars

\* pop returned an operand of an analyzer with two locals and emptied the operand area
C12_Witness ==
    /\ last.op = "pop"
    /\ last.res.st = "ok"
    /\ last.res.val.tag = "Expr"
    /\ Sa.local_count = 2
    /\ Sa.cur_top = 2
    /\ Sa.local_variables[3] = StackIndexed("local2", VNil)

\* C14 (as stated): get(idx) succeeds exactly when push_stack(idx) would succeed
\* (so it fails for idx = -1 and for idx >= local_count), returns the reference
\* push_stack would push, and changes neither cur_top nor any stored entry.
C14_GetMirrorsPushStack ==
    last.op = "get" =>
        LET pushed == sa_push_stack(Sa, last.arg)
        IN /\ (last.res.st = "ok") <=> (pushed.st = "ok")
           /\ last.res.st = "ok" =>
                 last.res.val = pushed.sa.local_variables[Len(pushed.sa.local_variables)]
           /\ (last.arg = -1 \/ last.arg >= Sa.local_count) => last.res.st = "err"

PushOps ==
    { "push_nil", "push_true", "push_int", "push_float", "push_string", "push_global",
      "push_return_value", "push_expr" }

\* C20 (as stated): every push operation (push_nil, push_true, push_int,
\* push_float, push_string, push_global, push_return_value, push_expr) succeeds
\* and increases cur_top by exactly one, for every reachable cur_top, 128 and
\* above included.
C20_PushAlwaysSucceeds ==
    [][ last'.op \in PushOps =>
           /\ last'.res.st = "ok"
           /\ Sa'.cur_top = Sa.cur_top + 1 ]_vars

(***************************************************************************)
(* Claims about single handlers of pass 2 (Spec)                            *)
(***************************************************************************)
\* the statement list of the active routine
ActiveStatements == functions[current_function_address.v].statements

\* C13 (as stated): pop-global-table with key k pops the value, then the
\* key-selector, and appends Assign{target = Expr(GlobalTableAccess{tlb =
\* Global{k}, slot = key-selector}), value} to the active routine.
C13_PopGlobalTableTarget ==
    (Stepped2 /\ LastOpcode = "PopGlobalTable" /\ last.res.st = "ok") =>
        /\ ActiveStatements # <<>>
        /\ LET assign == ActiveStatements[Len(ActiveStatements)]
           IN /\ assign.tag = "Assign"
              /\ assign.address = last.arg
              /\ assign.target.tag = "Expr"
              /\ assign.target.expr.tag = "GlobalTableAccess"
              /\ assign.target.expr.tlb = Global(read_u16(scenario, last.arg + 1).val)
              /\ (SubSeq(scenario.data, 5, 9) = Flatten(<<I_InitStack(1, 2), I_PushNil, I_PushTrue>>)
                  /\ last.arg = 9)
                 => /\ assign.target.expr.slot = StackIndexed("local2", VNil)
                    /\ assign.value = StackIndexed("local3", VTrue)

NoRoutineActive == stack_analyzer = None /\ current_function_address = None

\* C17: in pass 2 every opcode other than no-op and init-stack interpreted while
\* no routine is active makes the run fail, and no statement is appended to any
\* routine.
C17_NoRoutineNoOpcode ==
    [][ (/\ pc = "pass2"
         /\ cursor < EndOffset
         /\ NoRoutineActive
         /\ TryIntoOpcode(Byte(scenario, cursor)) \notin {"Nop", "InitStack", "Unknown"})
        => (pc' = "error" /\ functions' = functions) ]_vars

\* a ret met before the first init-stack of a stream that declares a routine
C17_Witness ==
    /\ Stepped2
    /\ LastOpcode = "Ret"
    /\ pc = "error"
    /\ NoRoutineActive
    /\ DOMAIN functions # {}

\* C19 (as stated): disassemble either completes both passes and returns the
\* routine table or returns a fatal error (it does not crash); on a stream
\* without any init-stack opcode it completes with an empty routine table.
C19_CompletesOrFails ==
    /\ pc # "panic"
    /\ Pass2Completed => pc = "done"

(***************************************************************************)
(* Claims about call targets (SpecTarget)                                   *)
(***************************************************************************)
\* the addresses at which pass 1 met an init-stack opcode
Pass1Routines ==
    { hist.p1[i] : i \in { j \in DOMAIN hist.p1 : Byte(scenario, hist.p1[j]) = 1 } }

CallTarget(at) == read_u32(scenario, at + 1).val

\* C15: in pass 2 a call resolves its target exactly when pass 1 met an
\* init-stack opcode at the target address, whether the target lies before or
\* after the call; a call of any other address makes the run fail and appends
\* no statement.
C15_CallResolvesDiscovered ==
    /\ []( (Stepped2 /\ LastOpcode = "Call") =>
              ( (last.res = Err("function not found"))
                   <=> (CallTarget(last.arg) \notin Pass1Routines) ) )
    /\ [][ (/\ pc = "pass2"
            /\ cursor < EndOffset
            /\ TryIntoOpcode(Byte(scenario, cursor)) = "Call"
            /\ CallTarget(cursor) \notin Pass1Routines)
           => (pc' = "error" /\ functions' = functions) ]_vars

\* a call of a routine that starts after the call was emitted
C15_Witness ==
    /\ Stepped2
    /\ LastOpcode = "Call"
    /\ last.res.st = "ok"
    /\ CallTarget(last.arg) > last.arg
    /\ \E st \in Statements : st.tag = "Call" /\ st.address = last.arg

(***************************************************************************)
(* Claims about syscall (SpecSys)                                           *)
(***************************************************************************)
SyscallAtCursor ==
    /\ pc = "pass2"
    /\ cursor < EndOffset
    /\ TryIntoOpcode(Byte(scenario, cursor)) = "Syscall"
    /\ stack_analyzer.tag = "Some"

SyscallFound == get_syscall(scenario, read_u16(scenario, cursor + 1).val)

\* C16: a syscall with an id unknown to get_syscall makes the run fail without
\* popping anything or appending a statement; with a known id it pops exactly
\* the declared args count and appends one Syscall statement with that many
\* args, and fails instead if the operand area holds fewer entries.
C16_SyscallArity ==
    [][ SyscallAtCursor =>
           IF SyscallFound.tag = "None"
           THEN /\ pc' = "error"
                /\ stack_analyzer' = stack_analyzer
                /\ functions' = functions
           ELSE IF Depth(Sa) < SyscallFound.v.args
           THEN /\ pc' = "error"
                /\ functions' = functions
           ELSE /\ pc' = "pass2"
                /\ Sa'.cur_top = Sa.cur_top - SyscallFound.v.args
                /\ current_function_address' = current_function_address
                /\ DOMAIN functions' = DOMAIN functions
                /\ \A a \in DOMAIN functions :
                      a # current_function_address.v => functions'[a] = functions[a]
                /\ Len(ActiveStatements') = Len(ActiveStatements) + 1
                /\ SubSeq(ActiveStatements', 1, Len(ActiveStatements)) = ActiveStatements
                /\ LET st == ActiveStatements'[Len(ActiveStatements')]
                   IN /\ st.tag = "Syscall"
                      /\ st.address = cursor
                      /\ st.syscall_name = SyscallFound.v.name
                      /\ Len(st.args) = SyscallFound.v.args
      ]_vars

\* the two-argument syscall was emitted with operands to spare
C16_Witness ==
    /\ Stepped2
    /\ LastOpcode = "Syscall"
    /\ last.res.st = "ok"
    /\ Depth(Sa) = 1
    /\ ActiveStatements[Len(ActiveStatements)].tag = "Syscall"
    /\ Len(ActiveStatements[Len(ActiveStatements)].args) = 2

(***************************************************************************)
(* Claims about termination (SpecLive)                                      *)
(***************************************************************************)
Returned == pc \in {"done", "error", "panic"}

\* C18: each pass of disassemble terminates: every handler, bypass or
\* interpreting, the recovery from an unknown opcode included, that returns Ok
\* strictly increases the cursor, so each `while cursor < end offset` loop ends
\* after finitely many steps or with an error.
C18_PassesTerminate ==
    /\ [][ ((pc = "pass1" /\ pc' = "pass1") \/ (pc = "pass2" /\ pc' = "pass2"))
           => cursor' > cursor ]_vars
    /\ <>(pc # "pass1")
    /\ <>Returned

\* pass 2 ran to the end of a stream on which it stepped over an unknown byte
C18_Witness ==
    /\ Pass2Completed
    /\ Len(hist.p2) >= 3
    /\ \E i \in DOMAIN hist.p2 : TryIntoOpcode(Byte(scenario, hist.p2[i])) = "Unknown"
    /\ cursor >= EndOffset

(***************************************************************************)
(* Claims about what the pushes store (SpecSA)                              *)
(***************************************************************************)
ConstantPushed(made) ==
    CASE made.op = "push_nil" -> VNil
      [] made.op = "push_true" -> VTrue
      [] made.op = "push_int" -> VInt(made.arg)
      [] made.op = "push_float" -> VFloat(made.arg)
      [] made.op = "push_string" -> VString(made.arg)

ConstantPushOps == {"push_nil", "push_true", "push_int", "push_float", "push_string"}

C22_PushStackAccepts ==
    [][ last'.op = "push_stack" =>
           /\ (0 <= last'.arg /\ last'.arg < Sa.local_count) =>
                 /\ last'.res.st = "ok"
                 /\ Sa'.cur_top = Sa.cur_top + 1
                 /\ Sa'.local_variables[Len(Sa'.local_variables)] =
                       StackIndexed("local" \o ToString(last'.arg), VNil)
           /\ last'.arg <= -2 =>
                 /\ last'.res.st = "ok"
                 /\ Sa'.cur_top = Sa.cur_top + 1
                 /\ Sa'.local_variables[Len(Sa'.local_variables)] =
                       StackIndexed("arg" \o ToString(-last'.arg - 2), VNil) ]_vars

(***************************************************************************)
(* Claims about the routine table (SpecTable)                               *)
(***************************************************************************)
Pass1Completed == hist.rewinds = 1

\* C27: after pass 1 completes, the routine table holds exactly one Routine for
\* each offset at which pass 1 met an init-stack opcode and no others; each
\* entry's key equals its address field, and its args_count and locals_count
\* are the two bytes that follow the opcode.
C27_TableIsDiscovered ==
    Pass1Completed =>
        /\ DOMAIN functions = Pass1Routines
        /\ \A a \in DOMAIN functions :
              /\ functions[a].address = a
              /\ functions[a].args_count = Byte(scenario, a + 1)
              /\ functions[a].locals_count = Byte(scenario, a + 2)

\* pass 1 completed on a stream of two routines, one declaring 255 arguments
\* and 128 locals
C27_Witness ==
    /\ last.op = "rewind"
    /\ Cardinality(DOMAIN functions) = 2
    /\ \E a \in DOMAIN functions :
          functions[a].args_count = 255 /\ functions[a].locals_count = 128

(***************************************************************************)
(* Claims about rewind and init-stack (Spec)                                *)
(***************************************************************************)
\* C23: rewind between the passes sets the cursor to the post-header offset 4,
\* clears the active routine address and the stack analyzer, and leaves the
\* routine table built by pass 1 (keys, args_count, locals_count, empty
\* statement lists) unchanged.
C23_RewindEffect ==
    /\ []( /\ rewind(Self).cursor = 4
           /\ rewind(Self).current_function_address = None
           /\ rewind(Self).stack_analyzer = None
           /\ rewind(Self).functions = functions )
    /\ [][ last'.op = "rewind" =>
              /\ cursor' = 4
              /\ current_function_address' = None
              /\ stack_analyzer' = None
              /\ functions' = functions
              /\ \A a \in DOMAIN functions' : functions'[a].statements = <<>> ]_vars

\* the rewind after a pass 1 that moved the cursor and found routines
C23_Witness ==
    /\ last.op = "rewind"
    /\ last.arg > 4
    /\ cursor = 4
    /\ Cardinality(DOMAIN functions) = 2

InitStackAtCursor ==
    /\ pc = "pass2"
    /\ cursor < EndOffset
    /\ TryIntoOpcode(Byte(scenario, cursor)) = "InitStack"

\* C24: each init-stack opcode interpreted in pass 2 replaces the stack analyzer
\* by a fresh one with the local_count and args_count recorded in pass 1 for
\* its address and an empty operand area (cur_top = local_count, no entry of
\* the previous routine kept), and makes its own address the active routine.
C24_InitStackFreshAnalyzer ==
    [][ InitStackAtCursor =>
           /\ pc' = "pass2"
           /\ cursor \in DOMAIN functions
           /\ current_function_address' = Some(cursor)
           /\ stack_analyzer'.tag = "Some"
           /\ Sa'.local_count = functions[cursor].locals_count
           /\ Sa'.args_count = functions[cursor].args_count
           /\ Sa'.cur_top = Sa'.local_count
           /\ Sa'.local_variables =
                 [i \in 1 .. Sa'.local_count |-> StackIndexed("local" \o ToString(i - 1), VNil)]
      ]_vars

\* a second routine was entered while the first still held two operands
C24_Witness ==
    /\ Stepped2
    /\ LastOpcode = "InitStack"
    /\ last.arg = 9
    /\ hist.p2 = <<4, 7, 8, 9>>
    /\ current_function_address = Some(9)
    /\ Depth(Sa) = 0

(***************************************************************************)
(* Claims about the statement lists (SpecRoutines)                          *)
(***************************************************************************)
\* the address of the init-stack opcode pass 2 interpreted most recently
LastInitStack ==
    LET inits == { i \in DOMAIN hist.p2 : Byte(scenario, hist.p2[i]) = 1 }
    IN IF inits = {} THEN None
       ELSE Some(hist.p2[CHOOSE i \in inits : \A j \in inits : j <= i])

AllEmpty == \A a \in DOMAIN functions : functions[a].statements = <<>>

\* C25: after pass 1 every routine's statement list is empty, and every
\* statement appended in pass 2 is appended to the routine whose init-stack
\* opcode was interpreted most recently; the lists of all other routines are
\* unchanged.
C25_AppendToActiveRoutine ==
    /\ []( (pc = "pass1" \/ last.op = "rewind") => AllEmpty )
    /\ [][ \A a \in DOMAIN functions :
              functions'[a].statements # functions[a].statements =>
                  /\ pc = "pass2"
                  /\ LastInitStack = Some(a)
                  /\ Len(functions'[a].statements) = Len(functions[a].statements) + 1 ]_vars

\* the second routine received a statement while the first, which has one,
\* kept its list
C25_Witness ==
    /\ Stepped2
    /\ LastOpcode = "Ret"
    /\ last.res.st = "ok"
    /\ current_function_address = Some(8)
    /\ Len(functions[8].statements) = 1
    /\ Len(functions[4].statements) = 1

\* C26: statement lists are append-only: at every step of pass 2 each routine's
\* list before the step is a prefix of its list after the step, and once a
\* later init-stack has made another routine active the earlier routine's list
\* never changes again.
C26_AppendOnly ==
    /\ [][ \A a \in DOMAIN functions :
              IsPrefix(functions[a].statements, functions'[a].statements) ]_vars
    /\ [][ (current_function_address.tag = "Some" /\ pc' # "pass1") =>
              /\ current_function_address'.tag = "Some"
              /\ current_function_address'.v >= current_function_address.v ]_vars
    /\ [][ \A a \in DOMAIN functions :
              (current_function_address.tag = "Some" /\ current_function_address.v > a)
                  => functions'[a].statements = functions[a].statements ]_vars

\* a routine with two statements, after an earlier routine that has one
C26_Witness ==
    /\ Stepped2
    /\ current_function_address = Some(8)
    /\ Len(functions[8].statements) = 2
    /\ Len(functions[4].statements) = 1

\* C28: every statement carries the stream offset of the opcode that produced
\* it: in each routine's list the top-level addresses are strictly increasing,
\* all greater than the routine's own address and smaller than the address of
\* the next routine discovered in the stream.
C28_StatementAddresses ==
    /\ []( \A a \in DOMAIN functions :
              LET list == functions[a].statements
              IN \A i \in DOMAIN list :
                    /\ Statement_address(list[i]) > a
                    /\ i > 1 => Statement_address(list[i]) > Statement_address(list[i - 1])
                    /\ \A b \in DOMAIN functions : b > a => Statement_address(list[i]) < b )
    /\ [][ \A a \in DOMAIN functions :
              Len(functions'[a].statements) > Len(functions[a].statements) =>
                  Statement_address(functions'[a].statements[Len(functions'[a].statements)]) = cursor ]_vars

\* two routines with statements, the first holding two
C28_Witness ==
    /\ Pass2Completed
    /\ DOMAIN functions = {4, 9}
    /\ Len(functions[4].statements) = 2
    /\ Len(functions[9].statements) = 1

(***************************************************************************)
(* Claims about the operand depth (Spec)                                    *)
(***************************************************************************)
PlusOne ==
    { "PushNil", "PushTrue", "PushI32", "PushI16", "PushI8", "PushF32", "PushString",
      "PushGlobal", "PushStack", "PushTop", "PushReturn" }

Zero == { "Neg", "PushGlobalTable", "PushLocalTable", "Nop", "Ret", "RetV", "Jmp" }

MinusOne ==
    { "Add", "Sub", "Mul", "Div", "Mod", "BitTest", "And", "Or", "SetE", "SetNE", "SetG",
      "SetLE", "SetL", "SetGE", "Jz", "PopGlobal", "PopStack" }

MinusTwo == { "PopGlobalTable", "PopLocalTable" }

\* the claimed net effect on the operand depth of the opcode at the cursor
NetEffect ==
    LET o == TryIntoOpcode(Byte(scenario, cursor))
    IN CASE o \in PlusOne -> 1
         [] o \in Zero -> 0
         [] o \in MinusOne -> -1
         [] o \in MinusTwo -> -2
         [] o = "Call" -> -functions[CallTarget(cursor)].args_count
         [] o = "Syscall" -> -SyscallFound.v.args

\* C29: each successfully interpreted opcode changes the operand depth
\* (cur_top - local_count) by its fixed net effect: +1 for the pushes of a
\* constant, a global, a stack slot, the top and the return value; 0 for neg,
\* push-global-table, push-local-table, no-op, ret, ret-with-value and jmp; -1
\* for the binary operators, jz, pop-global and pop-stack; -2 for
\* pop-global-table and pop-local-table; -n for a call or syscall with n
\* declared arguments.
C29_DepthNetEffect ==
    [][ (/\ pc = "pass2"
         /\ pc' = "pass2"
         /\ cursor < EndOffset
         /\ stack_analyzer.tag = "Some"
         /\ TryIntoOpcode(Byte(scenario, cursor)) \notin {"InitStack", "Unknown"})
        => /\ stack_analyzer'.tag = "Some"
           /\ Sa'.local_count = Sa.local_count
           /\ Depth(Sa') = Depth(Sa) + NetEffect ]_vars

\* pop-global-table took the two operands the routine held
C29_Witness ==
    /\ Stepped2
    /\ LastOpcode = "PopGlobalTable"
    /\ last.res.st = "ok"
    /\ stack_analyzer.tag = "Some"
    /\ Depth(Sa) = 0
    /\ hist.p2 = <<4, 7, 8, 9>>

(***************************************************************************)
(* Claims about the arguments of a call (SpecArgs)                          *)
(***************************************************************************)
\* C30 (as stated): for a call whose callee declares n arguments the Call
\* statement lists the popped operands in reverse push order: args[0] is the
\* operand pushed last before the call, args[n-1] the one pushed n-th from
\* last (here n = 2, after the pushes of 5 and then 3).
C30_CallArgsReversePushOrder ==
    (/\ Stepped2
     /\ LastOpcode = "Call"
     /\ Len(hist.p2) >= 3
     /\ hist.p2[Len(hist.p2) - 1] = last.arg - 5
     /\ hist.p2[Len(hist.p2) - 2] = last.arg - 10
     /\ SubSeq(scenario.data, last.arg - 9, last.arg) = I_PushI32(5) \o I_PushI32(3)
     /\ functions[CallTarget(last.arg)].args_count = 2)
    => /\ last.res.st = "ok"
       /\ LET made == ActiveStatements[Len(ActiveStatements)]
          IN /\ made.tag = "Call"
             /\ Statement_address(made) = last.arg
             /\ Len(made.args) = 2
             /\ made.args[1].tag = "StackIndexed"
             /\ made.args[1].variant = VInt(3)
             /\ made.args[2].tag = "StackIndexed"
             /\ made.args[2].variant = VInt(5)

(***************************************************************************)
(* Claims about push_top and the backing sequence (SpecSA)                  *)
(***************************************************************************)
\* C31 (as stated): push_top duplicates the current top of the operand stack:
\* when the operand area is not empty, push_top succeeds and the next two
\* pops return the same reference, the former top; when the operand area is
\* empty (cur_top = local_count) push_top puts nothing on the operand stack.
C31_PushTopDuplicatesTop ==
    [][ (pc = "sa" /\ last'.op = "push_top")
        => IF Depth(Sa) > 0
           THEN /\ last'.res.st = "ok"
                /\ LET first == sa_pop(Sa')
                       second == sa_pop(first.sa)
                   IN /\ first.st = "ok"
                      /\ second.st = "ok"
                      /\ first.val = second.val
                      /\ shadow # <<>> => second.val = shadow[Len(shadow)]
           ELSE Depth(Sa') = 0 ]_vars

\* C33: in every state reached by StackAnalyzer operations the backing
\* sequence local_variables holds at least cur_top entries, and neither pop
\* nor push_top has indexed past its end.
C33_BackingHoldsCurTop ==
    pc \in {"sa", "panic"}
    => /\ Len(Sa.local_variables) >= Sa.cur_top
       /\ last.op \in {"pop", "push_top"} => last.res.st # "panic"

\* push_top read the slot below cur_top while the sequence, after an earlier
\* pop, was longer than cur_top
C33_Witness ==
    /\ pc = "sa"
    /\ last.op = "push_top"
    /\ last.res.st = "ok"
    /\ Sa.local_count = 1
    /\ Sa.cur_top = 2
    /\ Len(Sa.local_variables) = 3

(***************************************************************************)
(* Claims about is_same_register (SpecReg)                                  *)
(***************************************************************************)
RegisterCalled == pc \in {"reg_done", "reg_swapped"} /\ last.op = "is_same_register"

\* C32: is_same_register returns Some(true) for two StackIndexed references
\* with equal names, Some(false) for two StackIndexed references with different
\* names, whatever their payloads, and None whenever either side is
\* ReturnValue, Global or Expr; swapping the two arguments gives the same
\* result.
C32_IsSameRegister ==
    RegisterCalled
    => LET a == last.arg.self
           b == last.arg.other
           r == last.res.val
       IN /\ last.res.st = "ok"
          /\ (a.tag = "StackIndexed" /\ b.tag = "StackIndexed" /\ a.name = b.name)
                => r = Some(TRUE)
          /\ (a.tag = "StackIndexed" /\ b.tag = "StackIndexed" /\ a.name # b.name)
                => r = Some(FALSE)
          /\ (a.tag \in {"ReturnValue", "Global", "Expr"}
                \/ b.tag \in {"ReturnValue", "Global", "Expr"})
                => r = None
          /\ pc = "reg_swapped" => r = last.expected

\* the same name with different payloads, asked in both directions
C32_Witness ==
    /\ pc = "reg_swapped"
    /\ last.op = "is_same_register"
    /\ last.arg.self = StackIndexed("local0", VInt(5))
    /\ last.arg.other = StackIndexed("local0", VNil)
    /\ last.res.val = Some(TRUE)
    /\ last.expected = Some(TRUE)

(***************************************************************************)
(* Claims about the declared locals (Spec)                                  *)
(***************************************************************************)
\* the placeholder that StackAnalyzer::new seeds at index i
Seeded(i) == StackIndexed("local" \o ToString(i), VNil)

\* C34: the declared-locals region is never modified: after any sequence of
\* pushes, pops and pop-stack opcodes, entry i of the analyzer, for every
\* i < local_count, is still the seeded placeholder named local{i} with Nil.
C34_LocalsNeverModified ==
    stack_analyzer.tag = "Some"
    => /\ Len(Sa.local_variables) >= Sa.local_count
       /\ \A i \in 0 .. Sa.local_count - 1 : Sa.local_variables[i + 1] = Seeded(i)

\* pop-stack 0 took the operand True of a routine with two locals and emitted
\* the assignment to local0
C34_Witness ==
    /\ Stepped2
    /\ LastOpcode = "PopStack"
    /\ last.res.st = "ok"
    /\ stack_analyzer.tag = "Some"
    /\ Sa.local_count = 2
    /\ Sa.cur_top = 3
    /\ ActiveStatements # <<>>
    /\ LET made == ActiveStatements[Len(ActiveStatements)]
       IN /\ made.tag = "Assign"
          /\ made.target = Seeded(0)
          /\ made.value.variant = VTrue

(***************************************************************************)
(* Claims about the unknown-opcode branch within one run (Spec)             *)
(***************************************************************************)
\* C35: within one run of disassemble the unknown-opcode branch of pass 2 is
\* never taken: pass 1 fails on any unknown opcode and pass 2 decodes the same
\* offsets, so every opcode byte pass 2 dispatches on is a known opcode.
C35_Pass2NeverMeetsUnknown ==
    /\ (pc = "pass2" /\ cursor < EndOffset) => ~UnknownAtCursor
    /\ Stepped2 => LastOpcode # "Unknown"
    /\ hist.rewinds = 1 =>
          \A i \in DOMAIN hist.p1 : TryIntoOpcode(Byte(scenario, hist.p1[i])) # "Unknown"

\* pass 2 of a full run has dispatched five opcodes, the last one through the
\* arm of the known no-op
C35_Witness ==
    /\ Stepped2
    /\ hist.rewinds = 1
    /\ hist.p1 = <<4, 7, 8, 9, 10>>
    /\ hist.p2 = <<4, 7, 8, 9, 10>>
    /\ LastOpcode = "Nop"
    /\ last.res.st = "ok"

=============================================================================
